---- MODULE Spec2Model ----
(***************************************************************************)
(* Verification model of kenpom-api: the parsing core (src/src/parsers.ts), *)
(* the KenpomAPI session (src/src/api.ts) and the CLI (src/cli.js).        *)
(*                                                                         *)
(* Strings are sequences of one-character strings, so that split, trim     *)
(* and the regular expressions of the source act on characters.  A         *)
(* nullable value is an option: Null is the empty tuple and Some(v) the    *)
(* one-element tuple holding v.                                            *)
(***************************************************************************)
EXTENDS Integers, Sequences, FiniteSets, TLC

VARIABLES pc, toks, pad, gameStr, result, cells, rowData, games,
          endpoint, html, season, data, schema, locator, cellText, option,
          clientTier, client, clientType, isLoggedIn, closePuppeteer,
          browsers, verified, loginPc, tiers, session, attempts, closePc,
          lastReturn, lastCall, calls,
          opts, yearRange, plan, cliPc, pauses, paused, gap, api

gameVars == <<toks, pad, gameStr, result>>

fanVars == <<cells, rowData, games>>

docVars == <<endpoint, html, season, data>>

argVars == <<schema, locator, cellText, option>>

\* the fields of a KenpomAPI instance
fieldVars == <<clientTier, client, clientType, isLoggedIn, closePuppeteer>>

\* the calls in progress on the instance and what they have done
callVars == <<browsers, verified, loginPc, tiers, session, attempts, closePc, lastReturn, lastCall, calls>>

\* the state of a run of the CLI
cliVars == <<opts, yearRange, plan, cliPc, pauses, paused, gap, api>>

runVars == <<fieldVars, callVars, cliVars>>

vars == <<pc, gameVars, fanVars, docVars, argVars, runVars>>

\* the CLI is not running
NoCli ==
  /\ opts = {} /\ yearRange = <<>> /\ plan = <<>> /\ cliPc = "none"
  /\ pauses = <<>> /\ paused = -1 /\ gap = -1 /\ api = "none"

\* no KenpomAPI instance is in use
NoSession ==
  /\ NoCli
  /\ clientTier = "auto" /\ client = 0 /\ clientType = "null" /\ isLoggedIn = FALSE
  /\ closePuppeteer = 0 /\ browsers = <<>> /\ verified = {}
  /\ loginPc = "idle" /\ tiers = <<>> /\ session = 0 /\ attempts = <<>> /\ closePc = "idle"
  /\ lastReturn = "none" /\ lastCall = [kind |-> "none", verified |-> FALSE]
  /\ calls = [login |-> 0, close |-> 0, clients |-> 0]

----------------------------------------------------------------------------
(* Options and characters *)

Null == <<>>

Some(v) == <<v>>

IsNull(o) == o = <<>>

Digits == {"0", "1", "2", "3", "4", "5", "6", "7", "8", "9"}

IsDigit(c) == c \in Digits

IsSpace(c) == c \in {" ", "\t", "\n", "\r"}

DigitVal(c) ==
  CASE c = "0" -> 0 [] c = "1" -> 1 [] c = "2" -> 2 [] c = "3" -> 3
    [] c = "4" -> 4 [] c = "5" -> 5 [] c = "6" -> 6 [] c = "7" -> 7
    [] c = "8" -> 8 [] c = "9" -> 9

HexDigits == Digits \cup {"a", "b", "c", "d", "e", "f", "A", "B", "C", "D", "E", "F"}

HexVal(c) ==
  CASE c \in Digits -> DigitVal(c)
    [] c \in {"a", "A"} -> 10 [] c \in {"b", "B"} -> 11
    [] c \in {"c", "C"} -> 12 [] c \in {"d", "D"} -> 13
    [] c \in {"e", "E"} -> 14 [] c \in {"f", "F"} -> 15

AllIn(s, S) == \A i \in 1..Len(s) : s[i] \in S

----------------------------------------------------------------------------
(* String primitives of the JavaScript runtime *)

Drop(s, n) == SubSeq(s, n + 1, Len(s))

Take(s, n) == SubSeq(s, 1, n)

StartsWith(s, d) == Len(d) <= Len(s) /\ SubSeq(s, 1, Len(d)) = d

EndsWith(s, d) == Len(d) <= Len(s) /\ SubSeq(s, Len(s) - Len(d) + 1, Len(s)) = d

\* String.prototype.indexOf: first index (1-based) of d in s, 0 when absent
IndexOf(s, d) ==
  LET hits == {i \in 1..(Len(s) - Len(d) + 1) : SubSeq(s, i, i + Len(d) - 1) = d}
  IN IF hits = {} THEN 0 ELSE CHOOSE i \in hits : \A j \in hits : i <= j

Includes(s, d) == IndexOf(s, d) # 0

\* String.prototype.trim
TrimStart(s) ==
  LET ns == {i \in 1..Len(s) : ~IsSpace(s[i])}
  IN IF ns = {} THEN <<>> ELSE Drop(s, (CHOOSE i \in ns : \A j \in ns : i <= j) - 1)

TrimEnd(s) ==
  LET ns == {i \in 1..Len(s) : ~IsSpace(s[i])}
  IN IF ns = {} THEN <<>> ELSE Take(s, CHOOSE i \in ns : \A j \in ns : i >= j)

Trim(s) == TrimEnd(TrimStart(s))

\* String.prototype.split with a non-empty literal separator
RECURSIVE Split(_, _)
Split(s, d) ==
  LET i == IndexOf(s, d)
  IN IF i = 0 THEN <<s>>
     ELSE <<Take(s, i - 1)>> \o Split(Drop(s, i + Len(d) - 1), d)

\* String.prototype.split(/\s+/)
RECURSIVE SplitWs(_)
SplitWs(s) ==
  LET ws == {i \in 1..Len(s) : IsSpace(s[i])}
  IN IF ws = {} THEN <<s>>
     ELSE LET i == CHOOSE k \in ws : \A j \in ws : k <= j
              rest == TrimStart(Drop(s, i))
          IN <<Take(s, i - 1)>> \o SplitWs(rest)

\* Array.prototype.join
RECURSIVE Join(_, _)
Join(parts, sep) ==
  IF Len(parts) = 0 THEN <<>>
  ELSE IF Len(parts) = 1 THEN parts[1]
  ELSE parts[1] \o sep \o Join(Tail(parts), sep)

\* Array.prototype.slice(from, to) with 0-based from and exclusive 0-based to
Slice(a, from, to) == SubSeq(a, from + 1, to)

RECURSIVE DecValue(_)
DecValue(s) ==
  IF Len(s) = 0 THEN 0 ELSE 10 * DecValue(Take(s, Len(s) - 1)) + DigitVal(s[Len(s)])

RECURSIVE HexValue(_)
HexValue(s) ==
  IF Len(s) = 0 THEN 0 ELSE 16 * HexValue(Take(s, Len(s) - 1)) + HexVal(s[Len(s)])

\* longest prefix of s made of characters of S
PrefixIn(s, S) ==
  LET bad == {i \in 1..Len(s) : s[i] \notin S}
  IN IF bad = {} THEN s ELSE Take(s, (CHOOSE i \in bad : \A j \in bad : i <= j) - 1)

\* mutant: only the first digit is read
parseInt_firstDigit(str) ==
  IF Len(str) > 0 /\ IsDigit(str[1]) THEN Some(DigitVal(str[1])) ELSE Null

\* parseInt(s) without radix: Null stands for NaN
parseInt(str) ==
  LET t    == TrimStart(str)
      neg  == Len(t) > 0 /\ t[1] = "-"
      u    == IF Len(t) > 0 /\ t[1] \in {"-", "+"} THEN Tail(t) ELSE t
      hex  == StartsWith(u, <<"0", "x">>) \/ StartsWith(u, <<"0", "X">>)
      body == IF hex THEN PrefixIn(Drop(u, 2), HexDigits) ELSE PrefixIn(u, Digits)
      mag  == IF hex THEN HexValue(body) ELSE DecValue(body)
  IN IF Len(body) = 0 THEN Null ELSE Some(IF neg THEN 0 - mag ELSE mag)

\* JavaScript truthiness of a string | null value
Truthy(o) == ~IsNull(o) /\ o[1] # <<>>

----------------------------------------------------------------------------
(* parseGameResult (src/src/parsers.ts 1066-1168) *)

COMMA_SP == <<",", " ">>

SP_AT_SP == <<" ", "a", "t", " ">>

SP_VS_SP == <<" ", "v", "s", ".", " ">>

SPACE == <<" ">>

\* the text of an overtime marker: "(OT)" or "(dOT)" with d one digit
IsOtMarker(t) ==
  \/ t = <<"(", "O", "T", ")">>
  \/ Len(t) = 5 /\ t[1] = "(" /\ IsDigit(t[2]) /\ t[3] = "O" /\ t[4] = "T" /\ t[5] = ")"

\* processedStr.match(/\((\d?OT)\)$/): the captured group, or Null
otMatch(s) ==
  IF Len(s) >= 5 /\ IsOtMarker(Drop(s, Len(s) - 5)) THEN Some(SubSeq(s, Len(s) - 3, Len(s) - 1))
  ELSE IF Len(s) >= 4 /\ IsOtMarker(Drop(s, Len(s) - 4)) THEN Some(SubSeq(s, Len(s) - 2, Len(s) - 1))
  ELSE Null

\* s.replace(/\s*\(\d?OT\)\s*$/, ''): the leftmost suffix that is an
\* overtime marker between optional whitespace is removed
otReplace(s) ==
  LET at == {i \in 1..Len(s) : IsOtMarker(Trim(Drop(s, i - 1)))}
  IN IF at = {} THEN s ELSE Take(s, (CHOOSE i \in at : \A j \in at : i <= j) - 1)

emptyResult ==
  [Winner |-> Null, WinnerRank |-> Null, WinnerScore |-> Null,
   Loser |-> Null, LoserRank |-> Null, LoserScore |-> Null,
   OT |-> Null, ActualMOV |-> Null,
   isCompleted |-> FALSE, isNeutral |-> FALSE, isAway |-> FALSE]

\* mutant: the marker is recorded but left in the string
stripOT_keepsMarker(r, s) ==
  LET m == otMatch(s)
  IN IF Truthy(m) THEN [res |-> [r EXCEPT !.OT = m], str |-> s] ELSE [res |-> r, str |-> s]

\* lines 1085-1090: record and strip the overtime marker
stripOT(r, s) ==
  LET m == otMatch(s)
  IN IF Truthy(m)
     THEN [res |-> [r EXCEPT !.OT = m], str |-> Trim(otReplace(s))]
     ELSE [res |-> r, str |-> s]

\* mutant: the margin is taken the wrong way round
actualMOV_swapped(winnerScore, loserScore) ==
  IF Truthy(winnerScore) /\ Truthy(loserScore)
  THEN LET winScore  == parseInt(winnerScore[1])
           loseScore == parseInt(loserScore[1])
       IN IF ~IsNull(winScore) /\ ~IsNull(loseScore)
          THEN Some(loseScore[1] - winScore[1])
          ELSE Null
  ELSE Null

\* lines 1115-1121: margin of victory from the two score strings
actualMOV(winnerScore, loserScore) ==
  IF Truthy(winnerScore) /\ Truthy(loserScore)
  THEN LET winScore  == parseInt(winnerScore[1])
           loseScore == parseInt(loserScore[1])
       IN IF ~IsNull(winScore) /\ ~IsNull(loseScore)
          THEN Some(winScore[1] - loseScore[1])
          ELSE Null
  ELSE Null

\* lines 1095-1124: the ', ' branch, taken when teams has two parts
completedBranch(r, teams) ==
  LET winnerParts == SplitWs(Trim(teams[1]))
      loserParts  == SplitWs(Trim(teams[2]))
      r1 == [r EXCEPT !.isCompleted = TRUE]
      r2 == IF Len(winnerParts) >= 3
            THEN [r1 EXCEPT !.WinnerRank = Some(winnerParts[1]),
                            !.WinnerScore = Some(winnerParts[Len(winnerParts)]),
                            !.Winner = Some(Join(Slice(winnerParts, 1, Len(winnerParts) - 1), SPACE))]
            ELSE r1
      r3 == IF Len(loserParts) >= 3
            THEN [r2 EXCEPT !.LoserRank = Some(loserParts[1]),
                            !.LoserScore = Some(loserParts[Len(loserParts)]),
                            !.Loser = Some(Join(Slice(loserParts, 1, Len(loserParts) - 1), SPACE))]
            ELSE r2
  IN [r3 EXCEPT !.ActualMOV = actualMOV(r3.WinnerScore, r3.LoserScore)]

\* mutant: the last token is dropped from the name as if it were a score
upcomingTeams_dropsLast(r, teams) ==
  LET team1Parts == SplitWs(Trim(teams[1]))
      team2Parts == SplitWs(Trim(teams[2]))
      r1 == IF Len(team1Parts) >= 2
            THEN [r EXCEPT !.WinnerRank = Some(team1Parts[1]),
                           !.Winner = Some(Join(Slice(team1Parts, 1, Len(team1Parts) - 1), SPACE))]
            ELSE r
  IN IF Len(team2Parts) >= 2
     THEN [r1 EXCEPT !.LoserRank = Some(team2Parts[1]),
                     !.Loser = Some(Join(Slice(team2Parts, 1, Len(team2Parts) - 1), SPACE))]
     ELSE r1

\* lines 1131-1142 and 1152-1162: rank and name of the two upcoming teams
upcomingTeams(r, teams) ==
  LET team1Parts == SplitWs(Trim(teams[1]))
      team2Parts == SplitWs(Trim(teams[2]))
      r1 == IF Len(team1Parts) >= 2
            THEN [r EXCEPT !.WinnerRank = Some(team1Parts[1]),
                           !.Winner = Some(Join(Slice(team1Parts, 1, Len(team1Parts)), SPACE))]
            ELSE r
  IN IF Len(team2Parts) >= 2
     THEN [r1 EXCEPT !.LoserRank = Some(team2Parts[1]),
                     !.Loser = Some(Join(Slice(team2Parts, 1, Len(team2Parts)), SPACE))]
     ELSE r1

\* lines 1128-1145: the ' at ' branch
awayBranch(r, teams) == upcomingTeams([r EXCEPT !.isAway = TRUE], teams)

\* lines 1149-1165: the ' vs. ' branch
neutralBranch(r, teams) == upcomingTeams([r EXCEPT !.isNeutral = TRUE], teams)

\* mutant: ' at ' is tried before ', '
dispatch_atFirst(r, processedStr) ==
  IF Len(Split(processedStr, SP_AT_SP)) = 2
  THEN awayBranch(r, Split(processedStr, SP_AT_SP))
  ELSE IF Len(Split(processedStr, COMMA_SP)) = 2
  THEN completedBranch(r, Split(processedStr, COMMA_SP))
  ELSE IF Len(Split(processedStr, SP_VS_SP)) = 2
  THEN neutralBranch(r, Split(processedStr, SP_VS_SP))
  ELSE r

\* lines 1092-1167: the formats in their fixed order, first match returns
dispatch(r, processedStr) ==
  IF Len(Split(processedStr, COMMA_SP)) = 2
  THEN completedBranch(r, Split(processedStr, COMMA_SP))
  ELSE IF Len(Split(processedStr, SP_AT_SP)) = 2
  THEN awayBranch(r, Split(processedStr, SP_AT_SP))
  ELSE IF Len(Split(processedStr, SP_VS_SP)) = 2
  THEN neutralBranch(r, Split(processedStr, SP_VS_SP))
  ELSE r

\* parseGameResult(gameStr); gameStr is an option, Null being null
parseGameResult(g) ==
  IF ~Truthy(g) THEN emptyResult
  ELSE LET st == stripOT(emptyResult, g[1])
       IN dispatch(st.res, st.str)

----------------------------------------------------------------------------
(* Inputs of parseGameResult: token sequences written out with spaces *)

MaxTokens == 4

MaxName == 2

W_1 == <<"1">>

W_12 == <<"1", "2">>

W_7 == <<"7">>

W_10 == <<"1", "0">>

W_D == <<"D">>

W_at == <<"a", "t">>

W_vs == <<"v", "s", ".">>

W_OT == <<"(", "O", "T", ")">>

W_2OT == <<"(", "2", "O", "T", ")">>

W_7c == <<"7", ",">>

SeqsFromTo(S, lo, hi) == UNION {[1..k -> S] : k \in lo..hi}

\* arbitrary short strings over the words that matter to the parser
FreeWords == {W_1, W_D, W_7c, W_at, W_vs, W_OT}

FreeToks == SeqsFromTo(FreeWords, 0, MaxTokens)

Ranks == {W_1, W_12}

Scores == {W_7, W_10}

NameWords == {W_D, W_at, W_vs}

Names == SeqsFromTo(NameWords, 1, MaxName)

OtSuffixes == {<<W_OT>>, <<W_2OT>>, <<W_OT, W_OT>>}

\* "<rank> <name> <score>, <rank> <name> <score>"
CompletedToks(wr, wn, ws, lr, ln, ls) ==
  <<wr>> \o wn \o <<ws \o <<",">>, lr>> \o ln \o <<ls>>

\* "<rank> <name> at <rank> <name>" and "<rank> <name> vs. <rank> <name>"
UpcomingToks(r1, n1, d, r2, n2) == <<r1>> \o n1 \o <<d, r2>> \o n2

\* well-formed game strings, names of up to MaxName words
BareToks ==
  {CompletedToks(wr, wn, ws, lr, ln, ls) :
     wr \in Ranks, wn \in Names, ws \in Scores,
     lr \in Ranks, ln \in Names, ls \in Scores}
  \cup
  {UpcomingToks(r1, n1, d, r2, n2) :
     r1 \in Ranks, n1 \in Names, d \in {W_at, W_vs},
     r2 \in Ranks, n2 \in Names}

\* well-formed game strings with one-word names, followed by overtime markers
MarkedToks ==
  {CompletedToks(wr, <<wn>>, ws, lr, <<ln>>, ls) \o ot :
     wr \in Ranks, wn \in NameWords, ws \in Scores,
     lr \in Ranks, ln \in NameWords, ls \in Scores, ot \in OtSuffixes}
  \cup
  {UpcomingToks(r1, <<n1>>, d, r2, <<n2>>) \o ot :
     r1 \in Ranks, n1 \in NameWords, d \in {W_at, W_vs},
     r2 \in Ranks, n2 \in NameWords, ot \in OtSuffixes}

FormToks == BareToks \cup MarkedToks

Pads == {"none", "lead", "wide"}

\* the string a token sequence is written as
Written(t, p) ==
  (IF p = "lead" THEN <<" ">> ELSE <<>>)
    \o Join(t, IF p = "wide" THEN <<" ", " ">> ELSE <<" ">>)

InitGame ==
  /\ pc = "start"
  /\ NoSession
  /\ \/ /\ toks \in FreeToks \cup FormToks
        /\ pad \in Pads
        /\ gameStr = Some(Written(toks, pad))
     \/ /\ toks = <<>>
        /\ pad = "null"
        /\ gameStr = Null
  /\ result = emptyResult
  /\ cells = <<>> /\ rowData = <<>> /\ games = <<>>
  /\ endpoint = "none" /\ html = <<>> /\ season = <<>> /\ data = <<>>
  /\ schema = <<>> /\ locator = 0 /\ cellText = <<>> /\ option = <<>>

ParseGame ==
  /\ pc = "start"
  /\ pc' = "done"
  /\ result' = parseGameResult(gameStr)
  /\ UNCHANGED <<toks, pad, gameStr, fanVars, docVars, argVars, runVars>>

NextGame == ParseGame

SpecGame == InitGame /\ [][NextGame]_vars

----------------------------------------------------------------------------
(* parseFanMatch, the mapping of the game rows (src/src/parsers.ts 911, 944-1050) *)

IsAlnum(c) ==
  c \in Digits \cup
    {"A", "B", "C", "D", "E", "F", "G", "H", "I", "J", "K", "L", "M",
     "N", "O", "P", "Q", "R", "S", "T", "U", "V", "W", "X", "Y", "Z",
     "a", "b", "c", "d", "e", "f", "g", "h", "i", "j", "k", "l", "m",
     "n", "o", "p", "q", "r", "s", "t", "u", "v", "w", "x", "y", "z"}

\* first index >= i of s that holds no character of S (Len(s) + 1 when none)
SkipIn(s, i, S) ==
  LET stop == {k \in i..Len(s) : s[k] \notin S}
  IN IF stop # {} THEN CHOOSE k \in stop : \A j \in stop : k <= j
     ELSE IF i > Len(s) THEN i ELSE Len(s) + 1

SkipWs(s, i) == SkipIn(s, i, {" ", "\t", "\n", "\r"})

SkipDigits(s, i) == SkipIn(s, i, Digits)

Lit(s, i, c) == i >= 1 /\ i <= Len(s) /\ s[i] = c

\* the characters a..b of s, empty when the range leaves s
Sub(s, a, b) == IF 1 <= a /\ a <= b /\ b <= Len(s) THEN SubSeq(s, a, b) ELSE <<>>

\* rowData[key] ?? rowData[alt] ?? ''
CellOr(r, key, alt) ==
  IF key \in DOMAIN r THEN r[key] ELSE IF alt \in DOMAIN r THEN r[alt] ELSE <<>>

MVP_COLON == <<"M", "V", "P", ":">>

W_NCAA == <<"N", "C", "A", "A">>

\* lines 950-957: /\s*MVP:\s*(.+)$/ and the removal of the matched text
extractMVP(g) ==
  LET k    == IndexOf(g, MVP_COLON)
      rest == IF k = 0 THEN <<>> ELSE Drop(g, k + 3)
      body == TrimStart(rest)
      cap  == IF body # <<>> THEN body ELSE Drop(rest, Len(rest) - 1)
  IN IF k # 0 /\ rest # <<>>
     THEN [MVP |-> Some(Trim(cap)), Game |-> TrimEnd(Take(g, k - 1))]
     ELSE [MVP |-> Null, Game |-> g]

\* the last word of g when whitespace precedes it, else the empty string
LastWordAfterSpace(g) ==
  LET t  == TrimEnd(g)
      ws == {i \in 1..Len(t) : IsSpace(t[i])}
  IN IF ws = {} THEN <<>> ELSE Drop(t, CHOOSE i \in ws : \A j \in ws : i >= j)

\* [A-Za-z0-9]{2,}-T
IsConfTag(w) ==
  /\ Len(w) >= 4 /\ w[Len(w)] = "T" /\ w[Len(w) - 1] = "-"
  /\ \A i \in 1..(Len(w) - 2) : IsAlnum(w[i])

IsNcaa(w) == w = W_NCAA

\* g.replace(/\s+<tag>\s*$/, '') where <tag> is "NCAA" or "conf" for [A-Za-z0-9]{2,}-T
dropTrailingTag(g, tag) ==
  LET w == LastWordAfterSpace(g)
  IN IF w # <<>> /\ (IF tag = "NCAA" THEN IsNcaa(w) ELSE IsConfTag(w))
     THEN TrimEnd(Take(g, Len(TrimEnd(g)) - Len(w)))
     ELSE g

\* lines 959-966: /\s+([A-Za-z0-9]{2,}-T|NCAA)\s*$/ and the two replacements
extractTournament(g) ==
  LET w == LastWordAfterSpace(g)
  IN IF w # <<>> /\ (IsConfTag(w) \/ IsNcaa(w))
     THEN [Tournament |-> Some(w), Game |-> dropTrailingTag(dropTrailingTag(g, "conf"), "NCAA")]
     ELSE [Tournament |-> Null, Game |-> g]

\* the indices of g at which a bracketed count "[digits]" opens
BracketAt(g) ==
  {i \in 1..Len(g) : g[i] = "[" /\ SkipDigits(g, i + 1) > i + 1 /\ Lit(g, SkipDigits(g, i + 1), "]")}

\* lines 968-975: /\s*\[(\d+)\]\s*/, first match replaced by one space, then trim
extractPossessions(g) ==
  IF BracketAt(g) = {} THEN [Possessions |-> Null, Game |-> g]
  ELSE LET i     == CHOOSE k \in BracketAt(g) : \A j \in BracketAt(g) : k <= j
           close == SkipDigits(g, i + 1)
           left  == TrimEnd(Take(g, i - 1))
           right == Drop(g, SkipWs(g, close + 1) - 1)
       IN [Possessions |-> Some(SubSeq(g, i + 1, close - 1)),
           Game |-> Trim(left \o <<" ">> \o right)]

\* lines 977-981: the thrill score, the leading run of digits and dots
thrillScore(r) ==
  LET t == CellOr(r, "Thrill Score", "ThrillScore")
      m == PrefixIn(t, Digits \cup {"."})
  IN IF m # <<>> THEN m ELSE Trim(Take(t, IF Len(t) < 5 THEN Len(t) ELSE 5))

MIDDLE_DOT == <<"·">>

\* lines 983-991: the text before the first middle dot, trimmed
beforeDot(t) == Trim(Split(t, MIDDLE_DOT)[1])

\* the rest of the prediction pattern from index i on:
\* \s+(\d+-\d+)\s*\((\d+%)\) and, when withPoss, \s*\[(\d+)\]
predTail(s, i, withPoss) ==
  LET a0 == SkipWs(s, i)
      a1 == SkipDigits(s, a0)
      b1 == SkipDigits(s, a1 + 1)
      p0 == SkipWs(s, b1)
      p1 == SkipDigits(s, p0 + 1)
      q0 == SkipWs(s, p1 + 2)
      n1 == SkipDigits(s, q0 + 1)
  IN [ok |-> /\ a0 > i /\ a1 > a0 /\ Lit(s, a1, "-") /\ b1 > a1 + 1
             /\ Lit(s, p0, "(") /\ p1 > p0 + 1 /\ Lit(s, p1, "%") /\ Lit(s, p1 + 1, ")")
             /\ (withPoss => (Lit(s, q0, "[") /\ n1 > q0 + 1 /\ Lit(s, n1, "]"))),
      score |-> Sub(s, a0, b1 - 1),
      prob  |-> Sub(s, p0 + 1, p1),
      poss  |-> Sub(s, q0 + 1, n1 - 1)]

\* pred.match(/^(.+?)\s+(\d+-\d+)\s*\((\d+%)\)(\s*\[(\d+)\])?/): the groups
\* for the shortest name, or Null
predMatch(s, withPoss) ==
  LET ends == {n \in 1..Len(s) : predTail(s, n + 1, withPoss).ok}
  IN IF ends = {} THEN Null
     ELSE LET n == CHOOSE k \in ends : \A j \in ends : k <= j
              t == predTail(s, n + 1, withPoss)
          IN Some([name |-> Take(s, n), score |-> t.score, prob |-> t.prob, poss |-> t.poss])

\* lines 1005-1008: the difference of the two numbers of "a-b"
predictedMOV(score) ==
  LET scores == Split(score, <<"-">>)
  IN IF Len(scores) = 2 THEN Some(DecValue(scores[1]) - DecValue(scores[2])) ELSE Null

\* lines 999-1008 and 1013-1020: the fields of a matched prediction
predictionFields(mt, withPoss) ==
  [PredictedWinner |-> Some(Trim(mt.name)),
   PredictedScore |-> Some(mt.score),
   WinProbability |-> Some(mt.prob),
   PredictedPossessions |-> IF withPoss /\ mt.poss # <<>> THEN Some(DecValue(mt.poss)) ELSE Null,
   PredictedMOV |-> predictedMOV(mt.score)]

\* lines 1022-1026: the fields when neither pattern matches
noPrediction ==
  [PredictedWinner |-> Null, PredictedScore |-> Null, WinProbability |-> Null,
   PredictedPossessions |-> Null, PredictedMOV |-> Null]

\* mutant: the pattern without the possession count is not tried
parsePrediction_noFallback(pred) ==
  LET full == predMatch(pred, TRUE)
  IN IF full # Null THEN predictionFields(full[1], TRUE) ELSE noPrediction

\* lines 993-1028: the five prediction fields
parsePrediction(pred) ==
  LET full   == predMatch(pred, TRUE)
      simple == predMatch(pred, FALSE)
  IN IF full # Null THEN predictionFields(full[1], TRUE)
     ELSE IF simple # Null THEN predictionFields(simple[1], FALSE)
     ELSE noPrediction

\* String(n) for a non-negative integer n
RECURSIVE NumberToString(_)
NumberToString(n) ==
  LET d == <<"0", "1", "2", "3", "4", "5", "6", "7", "8", "9">>[(n % 10) + 1]
  IN IF n < 10 THEN <<d>> ELSE NumberToString(n \div 10) \o <<d>>

\* lines 1030-1033: the actual count, else the predicted one when truthy
possessionsOrPredicted(possessions, predictedPossessions) ==
  IF ~Truthy(possessions) /\ predictedPossessions # Null /\ predictedPossessions[1] # 0
  THEN Some(NumberToString(predictedPossessions[1]))
  ELSE possessions

\* parsePredictedLoser (lines 1174-1190)
parsePredictedLoser(g, predictedWinner) ==
  LET parsed == parseGameResult(Some(g))
  IN IF ~Truthy(predictedWinner) THEN Null
     ELSE IF parsed.isCompleted \/ (Truthy(parsed.Winner) /\ Truthy(parsed.Loser))
     THEN IF parsed.Winner # predictedWinner THEN parsed.Winner ELSE parsed.Loser
     ELSE Null

\* lines 948-1047: the fields of a FanMatchGame, from the results of the steps
gameFields(r, m, t, p, pr, gr) ==
  [Game |-> p.Game, MVP |-> m.MVP, Tournament |-> t.Tournament,
   Possessions |-> possessionsOrPredicted(p.Possessions, pr.PredictedPossessions),
   ThrillScore |-> thrillScore(r),
   ComeBack |-> beforeDot(CellOr(r, "Come back", "Comeback")),
   ExciteMent |-> beforeDot(CellOr(r, "Excite ment", "Excitement")),
   PredictedWinner |-> pr.PredictedWinner, PredictedScore |-> pr.PredictedScore,
   WinProbability |-> pr.WinProbability,
   PredictedPossessions |-> pr.PredictedPossessions, PredictedMOV |-> pr.PredictedMOV,
   Winner |-> gr.Winner, WinnerRank |-> gr.WinnerRank, WinnerScore |-> gr.WinnerScore,
   Loser |-> gr.Loser, LoserRank |-> gr.LoserRank, LoserScore |-> gr.LoserScore,
   OT |-> gr.OT, ActualMOV |-> gr.ActualMOV,
   PredictedLoser |-> parsePredictedLoser(p.Game, pr.PredictedWinner)]

\* lines 944-1050: one FanMatchGame from one game row
fanMatchGame(r) ==
  LET m == extractMVP(CellOr(r, "Game", "Game"))
      t == extractTournament(m.Game)
      p == extractPossessions(t.Game)
  IN gameFields(r, m, t, p,
                parsePrediction(CellOr(r, "Prediction", "Prediction")),
                parseGameResult(Some(p.Game)))

W_Game == <<"G", "a", "m", "e">>

\* line 911: rows without a Game cell and repeated header rows are skipped
isGameRow(r) == CellOr(r, "Game", "Game") # <<>> /\ CellOr(r, "Game", "Game") # W_Game

\* lines 911-913 and 944-1050: the games of the rows, in order
RECURSIVE fanMatchGames(_)
fanMatchGames(rows) ==
  IF rows = <<>> THEN <<>>
  ELSE (IF isGameRow(Head(rows)) THEN <<fanMatchGame(Head(rows))>> ELSE <<>>)
         \o fanMatchGames(Tail(rows))

----------------------------------------------------------------------------
(* Documents and the season-dependent parsers (src/src/parsers.ts)         *)
(*                                                                         *)
(* A document is the sequence of its tables.  A table has the rows of its  *)
(* <thead> and, when it has a <tbody>, the rows of that.  A row has cells, *)
(* all <th> or all <td>, each a text.                                      *)

Ok(v) == [ok |-> TRUE, value |-> v]

Err(m) == [ok |-> FALSE, error |-> m]

\* season && ...: the season is neither null nor 0
SeasonGiven(y) == y # Null /\ y[1] # 0

\* $(row).find('td')
tdCells(row) == IF row.th THEN <<>> ELSE row.cells

\* $(row).text().trim()
rowText(row) == Trim(Join(row.cells, <<>>))

\* tbody.length > 0 ? tbody.find('tr') : table.find('tr').slice(1)
bodyRows(table) ==
  IF table.hasTbody THEN table.tbody ELSE Slice(table.head \o table.tbody, 1, Len(table.head \o table.tbody))

\* mutant: only the first run of digits is removed
stripSeed_firstRun(team) ==
  IF ~Truthy(team) THEN <<>>
  ELSE LET at == {i \in 1..Len(team[1]) : IsDigit(team[1][i])}
       IN IF at = {} THEN Trim(team[1])
          ELSE LET i == CHOOSE k \in at : \A j \in at : k <= j
                   j == CHOOSE k \in i..Len(team[1]) :
                          /\ \A n \in i..k : IsDigit(team[1][n])
                          /\ (k = Len(team[1]) \/ ~IsDigit(team[1][k + 1]))
               IN Trim(Take(team[1], i - 1) \o Drop(team[1], j))

\* stripSeed (lines 53-56)
stripSeed(team) ==
  IF ~Truthy(team) THEN <<>>
  ELSE Trim(SelectSeq(team[1], LAMBDA c : ~IsDigit(c)))

\* mutant: the error carries the index in place of the count
getTable_foundIndex(doc, tableIndex) ==
  IF Len(doc) = 0 THEN Err([msg |-> "No tables found"])
  ELSE IF tableIndex >= Len(doc)
  THEN Err([msg |-> "Table index out of bounds", index |-> tableIndex, found |-> tableIndex])
  ELSE Ok(doc[tableIndex + 1])

\* getTable (lines 75-88)
getTable(doc, tableIndex) ==
  IF Len(doc) = 0 THEN Err([msg |-> "No tables found"])
  ELSE IF tableIndex >= Len(doc)
  THEN Err([msg |-> "Table index out of bounds", index |-> tableIndex, found |-> Len(doc)])
  ELSE Ok(doc[tableIndex + 1])

\* mutant: the cell text is stored without trimming
rowObject_untrimmed(tds, columns) ==
  LET n == IF Len(tds) < Len(columns) THEN Len(tds) ELSE Len(columns)
  IN [k \in {columns[j] : j \in 1..n} |->
        LET last == CHOOSE j \in 1..n : columns[j] = k /\ \A i \in 1..n : columns[i] = k => i <= j
        IN tds[last]]

\* lines 107-113: the row object of one body row
rowObject(tds, columns) ==
  LET n == IF Len(tds) < Len(columns) THEN Len(tds) ELSE Len(columns)
  IN [k \in {columns[j] : j \in 1..n} |->
        LET last == CHOOSE j \in 1..n : columns[j] = k /\ \A i \in 1..n : columns[i] = k => i <= j
        IN Trim(tds[last])]

\* extractRows (lines 97-121)
RECURSIVE extractFrom(_, _)
extractFrom(rows, columns) ==
  IF rows = <<>> THEN <<>>
  ELSE LET tds == tdCells(Head(rows))
           obj == rowObject(tds, columns)
       IN (IF Len(tds) # 0 /\ DOMAIN obj # {} THEN <<obj>> ELSE <<>>)
            \o extractFrom(Tail(rows), columns)

extractRows(table, columns) == extractFrom(bodyRows(table), columns)

\* lines 206-211 and 369-374: drop header and empty rows, strip the seed
teamRows(rows) ==
  LET kept == SelectSeq(rows, LAMBDA r : r["Team"] # <<"T", "e", "a", "m">> /\ r["Team"] # <<>>)
  IN [i \in 1..Len(kept) |-> [kept[i] EXCEPT !["Team"] = stripSeed(Some(kept[i]["Team"]))]]

EfficiencyPre2010 ==
  <<"Team", "Conference",
    "Tempo-Adj", "Tempo-Adj.Rank", "Tempo-Raw", "Tempo-Raw.Rank",
    "Off.Efficiency-Adj", "Off.Efficiency-Adj.Rank", "Off.Efficiency-Raw", "Off.Efficiency-Raw.Rank",
    "Def.Efficiency-Adj", "Def.Efficiency-Adj.Rank", "Def.Efficiency-Raw", "Def.Efficiency-Raw.Rank">>

EfficiencyFrom2010 ==
  <<"Team", "Conference",
    "Tempo-Adj", "Tempo-Adj.Rank", "Tempo-Raw", "Tempo-Raw.Rank",
    "Avg.Poss.Length-Off", "Avg.Poss.Length-Off.Rank", "Avg.Poss.Length-Def", "Avg.Poss.Length-Def.Rank",
    "Off.Efficiency-Adj", "Off.Efficiency-Adj.Rank", "Off.Efficiency-Raw", "Off.Efficiency-Raw.Rank",
    "Def.Efficiency-Adj", "Def.Efficiency-Adj.Rank", "Def.Efficiency-Raw", "Def.Efficiency-Raw.Rank">>

\* lines 186-202
efficiencyColumns(y) ==
  IF SeasonGiven(y) /\ y[1] < 2010 THEN EfficiencyPre2010 ELSE EfficiencyFrom2010

\* parseEfficiency (lines 180-212)
parseEfficiency(doc, y) ==
  LET t == getTable(doc, 0)
  IN IF ~t.ok THEN t ELSE Ok(teamRows(extractRows(t.value, efficiencyColumns(y))))

HeightPre2008 ==
  <<"Team", "Conference",
    "AvgHgt", "AvgHgt.Rank", "EffHgt", "EffHgt.Rank",
    "C-Hgt", "C-Hgt.Rank", "PF-Hgt", "PF-Hgt.Rank",
    "SF-Hgt", "SF-Hgt.Rank", "SG-Hgt", "SG-Hgt.Rank",
    "PG-Hgt", "PG-Hgt.Rank",
    "Experience", "Experience.Rank", "Bench", "Bench.Rank">>

HeightFrom2008 == HeightPre2008 \o <<"Continuity", "Continuity.Rank">>

\* lines 328-349
heightColumns(y) ==
  IF SeasonGiven(y) /\ y[1] < 2008 THEN HeightPre2008 ELSE HeightFrom2008

\* parseHeight (lines 324-359)
parseHeight(doc, y) ==
  LET t == getTable(doc, 0)
  IN IF ~t.ok THEN t ELSE Ok(teamRows(extractRows(t.value, heightColumns(y))))

SchedulePre2010 ==
  <<"Date", "Opponent Rank", "Opponent Name", "Result",
    "Possession Number", "A", "Location", "Record", "Conference", "B">>

ScheduleFrom2010 ==
  <<"Date", "Team Rank", "Opponent Rank", "Opponent Name", "Result",
    "Possession Number", "A", "Location", "Record", "Conference", "B">>

\* lines 766-778
scheduleColumns(y) ==
  IF SeasonGiven(y) /\ y[1] < 2010 THEN SchedulePre2010 ELSE ScheduleFrom2010

W_Tournament == <<"T", "o", "u", "r", "n", "a", "m", "e", "n", "t">>

W_Postseason == <<"P", "o", "s", "t", "s", "e", "a", "s", "o", "n">>

W_Conference == <<"C", "o", "n", "f", "e", "r", "e", "n", "c", "e">>

\* lines 792-793: text.match(/(?:\sConference)?\sTournament.*?$/), trimmed,
\* or the whole text when there is no match
tournamentLabel(text) ==
  LET starts == {i \in 1..Len(text) :
                   /\ IsSpace(text[i])
                   /\ \/ StartsWith(Drop(text, i), W_Tournament)
                      \/ /\ StartsWith(Drop(text, i), W_Conference)
                         /\ Len(text) > i + 10 /\ IsSpace(text[i + 11])
                         /\ StartsWith(Drop(text, i + 11), W_Tournament)}
  IN IF starts = {} THEN text
     ELSE Trim(Drop(text, (CHOOSE i \in starts : \A j \in starts : i <= j) - 1))

\* the row object without the keys ks
Without(r, ks) == [k \in DOMAIN r \ ks |-> r[k]]

\* the row object with key k set to v
With(r, k, v) == [j \in DOMAIN r \cup {k} |-> IF j = k THEN v ELSE r[j]]

\* mutant: the game does not take the tournament in force
scheduleGame_unlabelled(obj, y, currentTournament) ==
  LET g == Without(With(obj, "Tournament", <<>>), {"A", "B"})
  IN IF SeasonGiven(y) /\ y[1] < 2010 /\ ("Team Rank" \notin DOMAIN g \/ g["Team Rank"] = <<>>)
     THEN With(g, "Team Rank", <<>>)
     ELSE g

\* lines 810-826: the game of one data row
scheduleGame(obj, y, currentTournament) ==
  LET g == Without(With(obj, "Tournament", currentTournament), {"A", "B"})
  IN IF SeasonGiven(y) /\ y[1] < 2010 /\ ("Team Rank" \notin DOMAIN g \/ g["Team Rank"] = <<>>)
     THEN With(g, "Team Rank", <<>>)
     ELSE g

\* lines 786-827: the body rows in order, carrying the current tournament
RECURSIVE scheduleFrom(_, _, _, _)
scheduleFrom(rows, columns, y, currentTournament) ==
  IF rows = <<>> THEN <<>>
  ELSE LET row  == Head(rows)
           text == rowText(row)
           tds  == tdCells(row)
           obj  == rowObject(tds, columns)
       IN IF Includes(text, W_Tournament) \/ Includes(text, W_Postseason)
          THEN scheduleFrom(Tail(rows), columns, y, tournamentLabel(text))
          ELSE IF Len(tds) = 0
          THEN scheduleFrom(Tail(rows), columns, y, currentTournament)
          ELSE IF obj["Date"] = <<"D", "a", "t", "e">>
                  \/ ("Result" \in DOMAIN obj /\ obj["Date"] = obj["Result"])
          THEN scheduleFrom(Tail(rows), columns, y, currentTournament)
          ELSE <<scheduleGame(obj, y, currentTournament)>>
                 \o scheduleFrom(Tail(rows), columns, y, currentTournament)

\* parseSchedule (lines 755-829)
parseSchedule(doc, y) ==
  IF Len(doc) < 2 THEN Err([msg |-> "Schedule table not found (need at least 2 tables)"])
  ELSE Ok(scheduleFrom(bodyRows(doc[2]), scheduleColumns(y), y, <<>>))

\* element i (0-based) of a split, '' when missing: parts[i] ?? ''
PartOr(parts, i) == IF i + 1 <= Len(parts) THEN parts[i + 1] ELSE <<>>

TeamChars ==
  {"A", "B", "C", "D", "E", "F", "G", "H", "I", "J", "K", "L", "M",
   "N", "O", "P", "Q", "R", "S", "T", "U", "V", "W", "X", "Y", "Z",
   "a", "b", "c", "d", "e", "f", "g", "h", "i", "j", "k", "l", "m",
   "n", "o", "p", "q", "r", "s", "t", "u", "v", "w", "x", "y", "z",
   ".", "&", "'", " ", "\t", "\n", "\r"}

\* teamInfo.match(/(\d+-\d+)/): the first "digits-digits", '' when none
heightOf(teamInfo) ==
  LET at == {i \in 1..Len(teamInfo) :
               /\ IsDigit(teamInfo[i])
               /\ Lit(teamInfo, SkipDigits(teamInfo, i), "-")
               /\ SkipDigits(teamInfo, SkipDigits(teamInfo, i) + 1) > SkipDigits(teamInfo, i) + 1}
  IN IF at = {} THEN <<>>
     ELSE LET i == CHOOSE k \in at : \A j \in at : k <= j
          IN Sub(teamInfo, i, SkipDigits(teamInfo, SkipDigits(teamInfo, i) + 1) - 1)

\* lines 493-533: the player of one row of three or more cells
kpoyPlayer(tds) ==
  LET playerInfo  == Trim(tds[2])
      parts       == Split(playerInfo, <<" ">> \o MIDDLE_DOT \o <<" ">>)
      nameParts   == Split(PartOr(parts, 0), COMMA_SP)
      teamInfo    == PartOr(nameParts, 1)
      teamMatch   == PrefixIn(teamInfo, TeamChars)
      detailParts == Split(PartOr(parts, 1), COMMA_SP)
  IN [k \in {"Rank", "Player", "Team", "Height", "Weight", "Year", "Hometown", "KPOY Rating"} |->
        CASE k = "Rank" -> Trim(tds[1])
          [] k = "Player" -> PartOr(nameParts, 0)
          [] k = "Team" -> IF teamMatch # <<>> THEN Trim(teamMatch) ELSE teamInfo
          [] k = "Height" -> heightOf(teamInfo)
          [] k = "Weight" -> PartOr(detailParts, 0)
          [] k = "Year" -> PartOr(detailParts, 1)
          [] k = "Hometown" -> Join(Slice(detailParts, 2, Len(detailParts)), COMMA_SP)
          [] k = "KPOY Rating" -> Trim(tds[3])]

\* parseKpoyTable (lines 484-537)
RECURSIVE kpoyFrom(_)
kpoyFrom(rows) ==
  IF rows = <<>> THEN <<>>
  ELSE LET tds == tdCells(Head(rows))
       IN (IF Len(tds) < 3 \/ Trim(tds[1]) = <<"R", "a", "n", "k">> \/ Trim(tds[1]) = <<>>
           THEN <<>> ELSE <<kpoyPlayer(tds)>>)
            \o kpoyFrom(Tail(rows))

parseKpoyTable(table) == kpoyFrom(bodyRows(table))

\* line 545: the MVP table is read for a given season from 2013 on
readsMvp(doc, y) == SeasonGiven(y) /\ y[1] >= 2013 /\ Len(doc) > 1

\* parseKpoy (lines 480-550)
parseKpoy(doc, y) ==
  Ok([kpoy |-> IF Len(doc) > 0 THEN parseKpoyTable(doc[1]) ELSE <<>>,
      mvp  |-> IF readsMvp(doc, y) THEN Some(parseKpoyTable(doc[Len(doc)])) ELSE Null])

\* the parser of an endpoint
parseOf(e, doc, y) ==
  CASE e = "efficiency" -> parseEfficiency(doc, y)
    [] e = "height" -> parseHeight(doc, y)
    [] e = "schedule" -> parseSchedule(doc, y)
    [] e = "kpoy" -> parseKpoy(doc, y)

----------------------------------------------------------------------------
(* The fixed-schema normalizers (src/src/parsers.ts)                        *)

\* row[key], Null when the row has no such key
Cell(row, key) == IF key \in DOMAIN row THEN Some(row[key]) ELSE Null

\* extractSeed (lines 63-67): the first run of digits
extractSeed(team) ==
  IF ~Truthy(team) THEN Null
  ELSE LET at == {i \in 1..Len(team[1]) : IsDigit(team[1][i])}
       IN IF at = {} THEN Null
          ELSE Some(Sub(team[1], CHOOSE i \in at : \A j \in at : i <= j,
                        SkipDigits(team[1], CHOOSE i \in at : \A j \in at : i <= j) - 1))

L_Team == <<"T", "e", "a", "m">>

L_Rk == <<"R", "k">>

L_Rank == <<"R", "a", "n", "k">>

L_Rating == <<"R", "a", "t", "i", "n", "g">>

\* rows.filter(row => row[headerKey] !== label && row[emptyKey] !== '')
dataRows(rows, headerKey, label, emptyKey) ==
  SelectSeq(rows, LAMBDA row : Cell(row, headerKey) # Some(label) /\ Cell(row, emptyKey) # Some(<<>>))

RatingsColumns ==
  <<"Rk", "Team", "Conf", "W-L",
    "AdjEM", "AdjO", "AdjO.Rank", "AdjD",
    "AdjD.Rank", "AdjT", "AdjT.Rank", "Luck",
    "Luck.Rank", "SOS-AdjEM", "SOS-AdjEM.Rank", "SOS-OppO",
    "SOS-OppO.Rank", "SOS-OppD", "SOS-OppD.Rank", "NCSOS-AdjEM",
    "NCSOS-AdjEM.Rank">>

\* lines 158-165: Team without the seed, and the Seed
ratingOf(row) ==
  With(With(row, "Team", stripSeed(Cell(row, "Team"))),
       "Seed", IF extractSeed(Cell(row, "Team")) # Null THEN extractSeed(Cell(row, "Team"))[1] ELSE <<>>)

\* parsePomeroyRatings (lines 138-166)
parsePomeroyRatings(doc) ==
  LET t == getTable(doc, 0)
  IN IF ~t.ok THEN t
     ELSE Ok(LET kept == dataRows(extractRows(t.value, RatingsColumns), "Rk", L_Rk, "Rk")
             IN [i \in 1..Len(kept) |-> ratingOf(kept[i])])

FourFactorsColumns ==
  <<"Team", "Conference", "AdjTempo", "AdjTempo.Rank",
    "AdjOE", "AdjOE.Rank", "Off-eFG%", "Off-eFG%.Rank",
    "Off-TO%", "Off-TO%.Rank", "Off-OR%", "Off-OR%.Rank",
    "Off-FTRate", "Off-FTRate.Rank", "AdjDE", "AdjDE.Rank",
    "Def-eFG%", "Def-eFG%.Rank", "Def-TO%", "Def-TO%.Rank",
    "Def-OR%", "Def-OR%.Rank", "Def-FTRate", "Def-FTRate.Rank">>

\* parseFourFactors (lines 225-246)
parseFourFactors(doc) ==
  LET t == getTable(doc, 0)
  IN IF ~t.ok THEN t ELSE Ok(teamRows(extractRows(t.value, FourFactorsColumns)))

TeamStatsBase ==
  <<"Team", "Conference", "3P%", "3P%.Rank",
    "2P%", "2P%.Rank", "FT%", "FT%.Rank",
    "Blk%", "Blk%.Rank", "Stl%", "Stl%.Rank",
    "NST%", "NST%.Rank", "A%", "A%.Rank",
    "3PA%", "3PA%.Rank">>

\* lines 263-270
teamStatsColumns(defense) ==
  TeamStatsBase \o (IF defense THEN <<"AdjDE", "AdjDE.Rank">> ELSE <<"AdjOE", "AdjOE.Rank">>)

\* parseTeamStats (lines 260-280)
parseTeamStats(doc, defense) ==
  LET t == getTable(doc, 0)
  IN IF ~t.ok THEN t ELSE Ok(teamRows(extractRows(t.value, teamStatsColumns(defense))))

PointDistColumns ==
  <<"Team", "Conference", "Off-FT", "Off-FT.Rank",
    "Off-2P", "Off-2P.Rank", "Off-3P", "Off-3P.Rank",
    "Def-FT", "Def-FT.Rank", "Def-2P", "Def-2P.Rank",
    "Def-3P", "Def-3P.Rank">>

\* parsePointDist (lines 293-310)
parsePointDist(doc) ==
  LET t == getTable(doc, 0)
  IN IF ~t.ok THEN t ELSE Ok(teamRows(extractRows(t.value, PointDistColumns)))

\* lines 382-392: the columns of a metric
playerStatsColumns(metric) ==
  <<"Rank", "Player", "Team">>
    \o (IF metric \in {"2P", "3P", "FT"}
        THEN <<metric \o "M", metric \o "A", metric \o "%">> ELSE <<metric>>)
    \o <<"Ht", "Wt", "Yr">>

\* lines 405-413: ORtg split into the rating and the Poss% without parentheses
ortgOf(row) ==
  LET parts == Split(CellOr(row, "ORtg", "ORtg"), <<" ">>)
  IN With(With(row, "ORtg", PartOr(parts, 0)),
          "Poss%", SelectSeq(PartOr(parts, 1), LAMBDA c : c \notin {"(", ")"}))

\* parsePlayerStats (lines 374-417)
parsePlayerStats(doc, metric) ==
  LET t == getTable(doc, 0)
  IN IF ~t.ok THEN t
     ELSE LET filtered == SelectSeq(dataRows(extractRows(t.value, playerStatsColumns(metric)),
                                             "Rank", L_Rank, "Rank"),
                                    LAMBDA row : Cell(row, "Player") # Some(<<>>))
          IN Ok(IF metric = "ORtg" THEN [i \in 1..Len(filtered) |-> ortgOf(filtered[i])] ELSE filtered)

RefsColumns ==
  <<"Rank", "Name", "Rating", "Games",
    "Last Game", "Game Score", "Box">>

\* lines 573-582: the six fields kept, '' for a missing cell
refOf(row) ==
  [k \in {"Rank", "Name", "Rating", "Games", "Last Game", "Game Score"} |-> CellOr(row, k, k)]

\* parseRefs (lines 562-583)
parseRefs(doc) ==
  LET t == getTable(doc, 0)
  IN IF ~t.ok THEN t
     ELSE Ok(LET kept == dataRows(extractRows(t.value, RefsColumns), "Rating", L_Rating, "Rank")
             IN [i \in 1..Len(kept) |-> refOf(kept[i])])

HcaColumns ==
  <<"Team", "Conference", "HCA", "HCA.Rank",
    "PF", "PF.Rank", "Pts", "Pts.Rank",
    "NST", "NST.Rank", "Blk", "Blk.Rank",
    "Elev", "Elev.Rank">>

\* parseHca (lines 595-613)
parseHca(doc) ==
  LET t == getTable(doc, 0)
  IN IF ~t.ok THEN t ELSE Ok(dataRows(extractRows(t.value, HcaColumns), "Team", L_Team, "Team"))

\* text.match(/^(.+?)\s*\(<group>\)$/): the name and the group, or Null; the
\* group is a run of digits when digitsOnly, else any non-empty text
parenMatch(text, digitsOnly) ==
  LET n     == Len(text)
      opens == {p \in 2..(n - 2) :
                  /\ text[p] = "("
                  /\ \A i \in (p + 1)..(n - 1) :
                       IF digitsOnly THEN IsDigit(text[i]) ELSE text[i] \notin {"\n", "\r"}}
      names == {k \in 1..(n - 3) :
                  /\ \A i \in 1..k : text[i] \notin {"\n", "\r"}
                  /\ \E p \in opens : p > k /\ \A i \in (k + 1)..(p - 1) : IsSpace(text[i])}
  IN IF n < 4 \/ text[n] # ")" \/ names = {} THEN Null
     ELSE LET k == CHOOSE a \in names : \A b \in names : a <= b
              ps == {p \in opens : p > k /\ \A i \in (k + 1)..(p - 1) : IsSpace(text[i])}
              p == CHOOSE a \in ps : \A b \in ps : a >= b
          IN Some([name |-> Take(text, k), group |-> Sub(text, p + 1, n - 1)])

\* mutant: the capacity keeps its parentheses
capacityOf_withParens(cell) ==
  LET mt == parenMatch(cell, TRUE)
  IN [base |-> IF mt # Null THEN Trim(mt[1].name) ELSE cell,
      capacity |-> IF mt # Null THEN <<"(">> \o mt[1].group \o <<")">> ELSE <<>>]

\* lines 637-647: a cell "name (digits)" split into the name and the capacity
capacityOf(cell) ==
  LET mt == parenMatch(cell, TRUE)
  IN [base |-> IF mt # Null THEN Trim(mt[1].name) ELSE cell,
      capacity |-> IF mt # Null THEN mt[1].group ELSE <<>>]

ArenasColumns ==
  <<"Rank", "Team", "Conference", "Arena",
    "Alternate">>

\* lines 635-649
arenaOf(row) ==
  [k \in {"Rank", "Team", "Conference", "Arena", "Arena.Capacity", "Alternate", "Alternate.Capacity"} |->
     CASE k = "Arena" -> capacityOf(CellOr(row, "Arena", "Arena")).base
       [] k = "Arena.Capacity" -> capacityOf(CellOr(row, "Arena", "Arena")).capacity
       [] k = "Alternate" -> capacityOf(CellOr(row, "Alternate", "Alternate")).base
       [] k = "Alternate.Capacity" -> capacityOf(CellOr(row, "Alternate", "Alternate")).capacity
       [] OTHER -> CellOr(row, k, k)]

\* parseArenas (lines 626-650)
parseArenas(doc) ==
  LET t == getTable(doc, 0)
  IN IF ~t.ok THEN t
     ELSE Ok(LET kept == dataRows(extractRows(t.value, ArenasColumns), "Team", L_Team, "Rank")
             IN [i \in 1..Len(kept) |-> arenaOf(kept[i])])

\* lines 675-682: a location "place (arena)" split
locationOf(cell) ==
  LET mt == parenMatch(cell, FALSE)
  IN [location |-> IF mt # Null THEN Trim(mt[1].name) ELSE cell,
      arena |-> IF mt = Null THEN <<>>
                ELSE IF EndsWith(mt[1].group, <<")">>) THEN Take(mt[1].group, Len(mt[1].group) - 1)
                ELSE mt[1].group]

GameAttribsColumns ==
  <<"Rank", "Date", "Game", "Box",
    "Location", "Conf.Matchup", "Value">>

\* lines 673-686
gameAttribOf(row) ==
  [k \in {"Rank", "Date", "Game", "Location", "Arena", "Conf.Matchup", "Value"} |->
     CASE k = "Location" -> locationOf(CellOr(row, "Location", "Location")).location
       [] k = "Arena" -> locationOf(CellOr(row, "Location", "Location")).arena
       [] OTHER -> CellOr(row, k, k)]

\* parseGameAttribs (lines 663-687)
parseGameAttribs(doc) ==
  LET t == getTable(doc, 0)
  IN IF ~t.ok THEN t
     ELSE Ok(LET kept == dataRows(extractRows(t.value, GameAttribsColumns), "Rank", L_Rank, "Rank")
             IN [i \in 1..Len(kept) |-> gameAttribOf(kept[i])])

ProgramRatingsColumns ==
  <<"Rank", "Team", "Conference", "Rating",
    "kenpom.Best.Rank", "kenpom.Best.Season", "kenpom.Worst.Rank", "kenpom.Worst.Season",
    "kenpom.Median.Rank", "kenpom.Top10.Finishes", "kenpom.Top25.Finishes", "kenpom.Top50.Finishes",
    "NCAA.Champs", "NCAA.F4", "NCAA.S16", "NCAA.R1",
    "Change">>

\* parseProgramRatings (lines 699-715)
parseProgramRatings(doc) ==
  LET t == getTable(doc, 0)
  IN IF ~t.ok THEN t
     ELSE Ok(dataRows(extractRows(t.value, ProgramRatingsColumns), "Team", L_Team, "Rank"))

\* the fixed-schema normalizer of an endpoint; opt is its second argument
normalizerOf(e, doc, opt) ==
  CASE e = "parsePomeroyRatings" -> parsePomeroyRatings(doc)
    [] e = "parseEfficiency" -> parseEfficiency(doc, opt)
    [] e = "parseFourFactors" -> parseFourFactors(doc)
    [] e = "parseTeamStats" -> parseTeamStats(doc, opt)
    [] e = "parsePointDist" -> parsePointDist(doc)
    [] e = "parseHeight" -> parseHeight(doc, opt)
    [] e = "parsePlayerStats" -> parsePlayerStats(doc, opt)
    [] e = "parseRefs" -> parseRefs(doc)
    [] e = "parseHca" -> parseHca(doc)
    [] e = "parseArenas" -> parseArenas(doc)
    [] e = "parseGameAttribs" -> parseGameAttribs(doc)
    [] e = "parseProgramRatings" -> parseProgramRatings(doc)

----------------------------------------------------------------------------
(* Parsers that derive the column names from the header cells               *)
(* (src/src/parsers.ts, src/unnamed/part_004); their keys are texts         *)

L_Column == <<"C", "o", "l", "u", "m", "n">>

L_DotRank == <<".", "R", "a", "n", "k">>

L_Seed == <<"S", "e", "e", "d">>

\* the elements of a sequence
Range(f) == {f[i] : i \in DOMAIN f}

\* the cells of the rows, row after row
RECURSIVE cellsOf(_)
cellsOf(rows) == IF rows = <<>> THEN <<>> ELSE Head(rows).cells \o cellsOf(Tail(rows))

\* table.find('thead tr th, thead tr td')
theadCells(table) == cellsOf(table.head)

\* mutant: the collision is tested on the cell's own text, and an empty cell
\* gets its placeholder without the test
headerName_placeholderLast(cell, i, headers, suffix) ==
  IF Trim(cell) = <<>> THEN L_Column \o NumberToString(i)
  ELSE IF suffix # "none" /\ Trim(cell) \in Range(headers)
  THEN Trim(cell) \o (IF suffix = "rank" THEN L_DotRank ELSE <<"_">> \o NumberToString(i))
  ELSE Trim(cell)

\* the name of header cell i (0-based) after the names in headers: its trimmed
\* text, `Column${i}` when that is empty, and on a collision with an earlier
\* name the suffix of the call site: ".Rank", "_i", or none
headerName(cell, i, headers, suffix) ==
  LET text == IF Trim(cell) # <<>> THEN Trim(cell) ELSE L_Column \o NumberToString(i)
  IN IF suffix # "none" /\ text \in Range(headers)
     THEN text \o (IF suffix = "rank" THEN L_DotRank ELSE <<"_">> \o NumberToString(i))
     ELSE text

\* .each((i, el) => { ...; headers.push(text) })
RECURSIVE headerNames(_, _, _, _)
headerNames(headerCells, i, headers, suffix) ==
  IF headerCells = <<>> THEN headers
  ELSE headerNames(Tail(headerCells), i + 1,
                   Append(headers, headerName(Head(headerCells), i, headers, suffix)), suffix)

\* lines 1351-1355: the Seed added and the Team stripped when Team is not empty
seedOf(obj) ==
  IF Cell(obj, L_Team) # Null /\ obj[L_Team] # <<>>
  THEN With(With(obj, L_Seed, IF extractSeed(Some(obj[L_Team])) # Null
                              THEN extractSeed(Some(obj[L_Team]))[1] ELSE <<>>),
            L_Team, stripSeed(Some(obj[L_Team])))
  ELSE obj

\* lines 1338-1360 and 1405-1420: the rows under the header names
RECURSIVE conferenceFrom(_, _, _)
conferenceFrom(rows, headers, withSeed) ==
  IF rows = <<>> THEN <<>>
  ELSE LET tds == tdCells(Head(rows))
           obj == rowObject(tds, headers)
       IN (IF Len(tds) # 0 /\ DOMAIN obj # {}
           THEN <<IF withSeed THEN seedOf(obj) ELSE obj>> ELSE <<>>)
            \o conferenceFrom(Tail(rows), headers, withSeed)

\* parseConferenceTable (lines 1390-1423)
parseConferenceTable(table) ==
  conferenceFrom(bodyRows(table), headerNames(theadCells(table), 0, <<>>, "rank"), FALSE)

\* parseConferenceStandings (lines 1321-1363)
parseConferenceStandings(doc) ==
  LET t == getTable(doc, 0)
  IN IF ~t.ok THEN t
     ELSE Ok(conferenceFrom(bodyRows(t.value), headerNames(theadCells(t.value), 0, <<>>, "rank"), TRUE))

\* parseConferenceOffense (lines 1371-1374)
parseConferenceOffense(doc) ==
  LET t == getTable(doc, 1)
  IN IF ~t.ok THEN t ELSE Ok(parseConferenceTable(t.value))

\* parseConferenceDefense (lines 1382-1385)
parseConferenceDefense(doc) ==
  LET t == getTable(doc, 2)
  IN IF ~t.ok THEN t ELSE Ok(parseConferenceTable(t.value))

\* parseTrends (lines 727-740): header names without collision handling, and
\* the last five rows dropped
parseTrends(doc) ==
  LET t == getTable(doc, 0)
  IN IF ~t.ok THEN t
     ELSE LET rows == extractRows(t.value, headerNames(theadCells(t.value), 0, <<>>, "none"))
          IN Ok(Slice(rows, 0, IF Len(rows) > 5 THEN Len(rows) - 5 ELSE 0))

\* part_004 lines 72-92: the cells of the last <thead> row, or of the first row
headerRowCells(table) ==
  IF table.head # <<>> THEN table.head[Len(table.head)].cells
  ELSE IF table.tbody # <<>> THEN table.tbody[1].cells
  ELSE <<>>

\* part_004 lines 98-114: the rows under the header names; rows without keys
\* are not added
RECURSIVE elementFrom(_, _)
elementFrom(rows, headers) ==
  IF rows = <<>> THEN <<>>
  ELSE LET obj == rowObject(tdCells(Head(rows)), headers)
       IN (IF DOMAIN obj # {} THEN <<obj>> ELSE <<>>) \o elementFrom(Tail(rows), headers)

\* parseTableElement (part_004 lines 66-117)
parseTableElement(table) ==
  elementFrom(bodyRows(table), headerNames(headerRowCells(table), 0, <<>>, "index"))

\* parseTable (part_004 lines 39-57) with the default selector
parseTable(doc, tableIndex) ==
  IF Len(doc) = 0 THEN Err([msg |-> "No tables found matching selector: table"])
  ELSE IF tableIndex >= Len(doc)
  THEN Err([msg |-> "Table index out of bounds", index |-> tableIndex, found |-> Len(doc)])
  ELSE Ok(parseTableElement(doc[tableIndex + 1]))

\* the header cells a parser reads and the names it gives them
headersOf(e, table) ==
  CASE e = "parseTableElement" -> headerNames(headerRowCells(table), 0, <<>>, "index")
    [] e = "parseTrends" -> headerNames(theadCells(table), 0, <<>>, "none")
    [] OTHER -> headerNames(theadCells(table), 0, <<>>, "rank")

\* tables.eq(i): the selection of the table at index i, counted from the end
\* when i is negative, and the empty selection when there is none
eq(tables, i) ==
  LET k == IF i < 0 THEN Len(tables) + i ELSE i
  IN IF k >= 0 /\ k < Len(tables) THEN <<tables[k + 1]>> ELSE <<>>

\* lines 1466-1479: rows of fewer than three cells are skipped, rows with an
\* empty first cell are not added
RECURSIVE statsFrom(_)
statsFrom(rows) ==
  IF rows = <<>> THEN <<>>
  ELSE LET tds == tdCells(Head(rows))
       IN (IF Len(tds) >= 3 /\ Trim(tds[1]) # <<>>
           THEN <<[Stat |-> Trim(tds[1]), Value |-> Trim(tds[2]), Rank |-> Trim(tds[3])]>>
           ELSE <<>>) \o statsFrom(Tail(rows))

\* parseConferenceStatsTable (lines 1462-1482) on a selection
parseConferenceStatsTable(selection) ==
  IF selection = <<>> THEN <<>> ELSE statsFrom(bodyRows(selection[1]))

\* lines 1447-1451: the Stat is cut at its first " ("
aggregateOf(row) == [row EXCEPT !.Stat = Split(row.Stat, <<" ", "(">>)[1]]

\* parseConferenceAggregateStats (lines 1433-1457); it has no failing path
parseConferenceAggregateStats(doc, singleConf) ==
  IF singleConf
  THEN LET rows == parseConferenceStatsTable(eq(doc, Len(doc) - 3))
                     \o parseConferenceStatsTable(eq(doc, Len(doc) - 2))
       IN Ok([i \in 1..Len(rows) |-> aggregateOf(rows[i])])
  ELSE Ok(IF eq(doc, 0) = <<>> THEN <<>> ELSE parseConferenceTable(eq(doc, 0)[1]))

\* the parser of a call that reads a table
tableParserOf(e, doc, opt) ==
  CASE e \in {"schedule", "kpoy"} -> parseOf(e, doc, opt)
    [] e = "parseConferenceStandings" -> parseConferenceStandings(doc)
    [] e = "parseConferenceOffense" -> parseConferenceOffense(doc)
    [] e = "parseConferenceDefense" -> parseConferenceDefense(doc)
    [] e = "parseConferenceAggregateStats" -> parseConferenceAggregateStats(doc, opt)
    [] e = "parseTrends" -> parseTrends(doc)
    [] OTHER -> normalizerOf(e, doc, opt)

----------------------------------------------------------------------------
(* Reading the input token by token, independently of the parser *)

IsDec(t) == Len(t) > 0 /\ AllIn(t, Digits)

RECURSIVE NumAcc(_, _)
NumAcc(t, acc) == IF t = <<>> THEN acc ELSE NumAcc(Tail(t), 10 * acc + DigitVal(Head(t)))

Numeral(t) == NumAcc(t, 0)

Front(t) == SubSeq(t, 1, Len(t) - 1)

EndsComma(t) == Len(t) > 0 /\ t[Len(t)] = ","

MarkerWords == {W_OT} \cup {<<"(", d, "O", "T", ")">> : d \in Digits}

HasMarker == Len(toks) > 0 /\ toks[Len(toks)] \in MarkerWords

\* the tokens that remain once a trailing overtime marker is taken off
Body == IF HasMarker THEN Front(toks) ELSE toks

\* number of parts obtained by cutting ts at the tokens that end in ", "
CommaParts(ts) == 1 + Cardinality({j \in 1..(Len(ts) - 1) : EndsComma(ts[j])})

\* number of delimiter words d of ts from token j on that stand between two
\* spaces, scanning left to right; free tells whether the space before token
\* j is still available, two tells whether tokens are two spaces apart
RECURSIVE WordCuts(_, _, _, _, _)
WordCuts(ts, d, j, free, two) ==
  IF j > Len(ts) THEN 0
  ELSE IF ts[j] = d /\ free /\ j < Len(ts)
       THEN 1 + WordCuts(ts, d, j + 1, two, two)
       ELSE WordCuts(ts, d, j + 1, j < Len(ts), two)

WordParts(ts, d, lead) == 1 + WordCuts(ts, d, 1, lead, pad = "wide")

\* the format the priority order ', ' then ' at ' then ' vs. ' selects for
\* the token sequence ts written with or without a leading space
FormatOf(ts, lead) ==
  IF CommaParts(ts) = 2 THEN "completed"
  ELSE IF WordParts(ts, W_at, lead) = 2 THEN "away"
  ELSE IF WordParts(ts, W_vs, lead) = 2 THEN "neutral"
  ELSE "none"

\* toks is "<rank> <name> <score>, <rank> <name> <score>" with the comma at token i
IsCompletedAt(i) ==
  /\ 3 <= i /\ i + 3 <= Len(toks)
  /\ IsDec(toks[1]) /\ EndsComma(toks[i]) /\ IsDec(Front(toks[i]))
  /\ IsDec(toks[i + 1]) /\ IsDec(toks[Len(toks)])
  /\ \A j \in 1..(Len(toks) - 1) : j # i => ~EndsComma(toks[j])

\* toks is "<rank> <name> d <rank> <name>" with the delimiter word d at token i,
\* no ', ' in the string and the last name word not an overtime marker
IsUpcomingAt(i, d) ==
  /\ 3 <= i /\ i + 2 <= Len(toks)
  /\ IsDec(toks[1]) /\ toks[i] = d /\ IsDec(toks[i + 1])
  /\ \A j \in 1..(Len(toks) - 1) : ~EndsComma(toks[j])
  /\ ~HasMarker

Occurrences(d) == {j \in 2..(Len(toks) - 1) : toks[j] = d}

UpcomingResult(i, away) ==
  [emptyResult EXCEPT
     !.WinnerRank = Some(toks[1]),
     !.Winner = Some(Join(SubSeq(toks, 2, i - 1), SPACE)),
     !.LoserRank = Some(toks[i + 1]),
     !.Loser = Some(Join(SubSeq(toks, i + 2, Len(toks)), SPACE)),
     !.isAway = away, !.isNeutral = ~away]

----------------------------------------------------------------------------
(* Claims about parseGameResult *)

\* C1: a completed-game string "<rank> <name> <score>, <rank> <name> <score>"
\* is reported completed, not away, not neutral, with the winner taken from the
\* first part, the loser from the second, multi-word names joined by single
\* spaces, and ActualMOV the integer difference of the two scores.
C1_CompletedFormat ==
  pc = "done" =>
    \A i \in 1..Len(toks) : IsCompletedAt(i) =>
      /\ result.isCompleted /\ ~result.isAway /\ ~result.isNeutral
      /\ result.WinnerRank = Some(toks[1])
      /\ result.Winner = Some(Join(SubSeq(toks, 2, i - 1), SPACE))
      /\ result.WinnerScore = Some(Front(toks[i]))
      /\ result.LoserRank = Some(toks[i + 1])
      /\ result.Loser = Some(Join(SubSeq(toks, i + 2, Len(toks) - 1), SPACE))
      /\ result.LoserScore = Some(toks[Len(toks)])
      /\ result.ActualMOV = Some(Numeral(Front(toks[i])) - Numeral(toks[Len(toks)]))

\* a completed game with two-word names and a negative margin has been parsed
C1_Witness ==
  /\ pc = "done" /\ pad = "wide"
  /\ toks = CompletedToks(W_12, <<W_D, W_at>>, W_7, W_1, <<W_vs, W_D>>, W_10)
  /\ result.ActualMOV = Some(0 - 3)
  /\ result.Winner = Some(<<"D", " ", "a", "t">>)

\* C2 as stated: every "<rank> <name> at <rank> <name>" string is reported away
\* and every "<rank> <name> vs. <rank> <name>" string neutral, with null scores
\* and margin, the first team in the Winner slot and the second in the Loser slot.
C2_UpcomingAsStated ==
  pc = "done" =>
    \A i \in 1..Len(toks) :
      /\ IsUpcomingAt(i, W_at) => result = UpcomingResult(i, TRUE)
      /\ IsUpcomingAt(i, W_vs) => result = UpcomingResult(i, FALSE)

\* C2 amended: the same, for strings that contain ' at ' exactly once (away),
\* or ' vs. ' exactly once and no ' at ' (neutral).
C2_UpcomingFormats ==
  pc = "done" =>
    \A i \in 1..Len(toks) :
      /\ (IsUpcomingAt(i, W_at) /\ Occurrences(W_at) = {i})
           => result = UpcomingResult(i, TRUE)
      /\ (IsUpcomingAt(i, W_vs) /\ Occurrences(W_vs) = {i} /\ Occurrences(W_at) = {})
           => result = UpcomingResult(i, FALSE)

\* an away game whose first name contains "vs." and a neutral game have been parsed
C2_Witness ==
  /\ pc = "done"
  /\ \/ /\ toks = UpcomingToks(W_1, <<W_D, W_vs>>, W_at, W_12, <<W_D>>)
        /\ result.isAway /\ result.Winner = Some(<<"D", " ", "v", "s", ".">>)
        /\ result.LoserRank = Some(W_12)
     \/ /\ toks = UpcomingToks(W_1, <<W_D>>, W_vs, W_12, <<W_D, W_D>>)
        /\ result.isNeutral /\ result.Loser = Some(<<"D", " ", "D">>)

\* C3 as stated: isCompleted is reported only when both parts around ', ' have
\* at least 3 tokens, isAway / isNeutral only when both parts around the
\* delimiter word have at least 2 tokens.
C3_TokenRule ==
  pc = "done" =>
    /\ result.isCompleted =>
         \E i \in 1..Len(Body) : EndsComma(Body[i]) /\ i >= 3 /\ Len(Body) - i >= 3
    /\ result.isAway =>
         \E i \in 1..Len(Body) : Body[i] = W_at /\ i - 1 >= 2 /\ Len(Body) - i >= 2
    /\ result.isNeutral =>
         \E i \in 1..Len(Body) : Body[i] = W_vs /\ i - 1 >= 2 /\ Len(Body) - i >= 2

\* C4: the formats are tried in the order ', ', ' at ', ' vs. ' on the string
\* without its overtime marker, the first delimiter that cuts it into exactly
\* two parts decides, and at most one of the three flags is true.
C4_FormatPriority ==
  pc = "done" /\ pad # "null" =>
    LET f == FormatOf(Body, pad = "lead" /\ ~HasMarker)
    IN /\ result.isCompleted = (f = "completed")
       /\ result.isAway = (f = "away")
       /\ result.isNeutral = (f = "neutral")
       /\ Cardinality({k \in {"c", "a", "n"} :
             \/ k = "c" /\ result.isCompleted
             \/ k = "a" /\ result.isAway
             \/ k = "n" /\ result.isNeutral}) <= 1

\* a string holding ', ' and ' at ' and ' vs. ' has been parsed as completed only
C4_Witness ==
  /\ pc = "done"
  /\ toks = <<W_7c, W_at, W_vs, W_D>>
  /\ result.isCompleted /\ ~result.isAway /\ ~result.isNeutral

\* C5 as stated: null, the empty string and every string that no delimiter
\* cuts into exactly two parts (its overtime marker set aside) give the
\* all-null result with the three flags false.
C5_AllNull ==
  (pc = "done" /\ (pad = "null" \/ FormatOf(Body, pad = "lead" /\ ~HasMarker) = "none"))
    => result = emptyResult

\* the input with its trailing marker and the whitespace before it removed
Unmarked == IF Len(toks) <= 1 THEN <<>> ELSE Written(Front(toks), pad)

OtherFields(r) == [r EXCEPT !.OT = Null]

MarkerText(m) == SubSeq(m, 2, Len(m) - 1)

\* C6 as stated: with a trailing '(OT)' or '(nOT)' the OT field is the marker
\* text and every other field is that of the input without the marker and the
\* whitespace before it; without a trailing marker OT is null.
C6_OvertimeAsStated ==
  pc = "done" =>
    IF HasMarker
    THEN /\ result.OT = Some(MarkerText(toks[Len(toks)]))
         /\ OtherFields(result) = OtherFields(parseGameResult(Some(Unmarked)))
    ELSE result.OT = Null

\* C6 amended: the same, provided the input does not start with whitespace and
\* the text before the marker does not itself end in an overtime marker.
C6_OvertimeMarker ==
  pc = "done" =>
    IF HasMarker
    THEN /\ result.OT = Some(MarkerText(toks[Len(toks)]))
         /\ (pad # "lead" /\ (Len(toks) < 2 \/ toks[Len(toks) - 1] \notin MarkerWords))
              => OtherFields(result) = OtherFields(parseGameResult(Some(Unmarked)))
    ELSE result.OT = Null

\* a double-overtime completed game has been parsed
C6_Witness ==
  /\ pc = "done" /\ pad = "wide"
  /\ toks = CompletedToks(W_1, <<W_D>>, W_10, W_12, <<W_at>>, W_7) \o <<W_2OT>>
  /\ result.OT = Some(<<"2", "O", "T">>)
  /\ result.LoserScore = Some(W_7) /\ result.isCompleted

\* C7 as stated: when both scores are non-null ActualMOV is non-null and is
\* their difference; when either score is null ActualMOV is null.
C7_ConsistencyAsStated ==
  pc = "done" =>
    /\ (result.WinnerScore # Null /\ result.LoserScore # Null) =>
         /\ result.ActualMOV # Null
         /\ (IsDec(result.WinnerScore[1]) /\ IsDec(result.LoserScore[1])) =>
               result.ActualMOV = Some(Numeral(result.WinnerScore[1]) - Numeral(result.LoserScore[1]))
    /\ (result.WinnerScore = Null \/ result.LoserScore = Null) => result.ActualMOV = Null

\* C7 amended: when both scores are non-null strings of decimal digits
\* ActualMOV is their difference; when either score is null ActualMOV is null.
C7_Consistency ==
  pc = "done" =>
    /\ (/\ result.WinnerScore # Null /\ result.LoserScore # Null
        /\ IsDec(result.WinnerScore[1]) /\ IsDec(result.LoserScore[1])) =>
           result.ActualMOV = Some(Numeral(result.WinnerScore[1]) - Numeral(result.LoserScore[1]))
    /\ (result.WinnerScore = Null \/ result.LoserScore = Null) => result.ActualMOV = Null

\* a completed game with the scores 10 and 7 has been parsed
C7_Witness ==
  /\ pc = "done"
  /\ result.WinnerScore = Some(W_10) /\ result.LoserScore = Some(W_7)
  /\ result.ActualMOV = Some(3)

----------------------------------------------------------------------------
(* Inputs of parseFanMatch: one body row built from its parts *)

MaxDecor == 3

W_P68 == <<"[", "6", "8", "]">>

W_B12T == <<"B", "1", "2", "-", "T">>

W_St == <<"S", "t", ".">>

W_68 == <<"6", "8">>

W_0 == <<"0">>

W_75 == <<"7", "5">>

W_TBD == <<"T", "B", "D">>

\* the game descriptions a Game cell starts with
GameBases ==
  {CompletedToks(W_1, <<W_D>>, W_10, W_12, <<W_D, W_St>>, W_7),
   UpcomingToks(W_1, <<W_D>>, W_at, W_12, <<W_D, W_St>>),
   UpcomingToks(W_1, <<W_D>>, W_vs, W_12, <<W_D, W_St>>),
   <<W_D>>, <<W_Game>>, <<>>}

\* the decorations that may follow: possessions, tournament tags, overtime
DecorWords == {W_P68, W_B12T, W_NCAA, W_OT}

Decors == SeqsFromTo(DecorWords, 0, MaxDecor)

MvpSuffix == <<" ", "M", "V", "P", ":", " ", "X", " ", "Y">>

\* the Prediction cell: kind "full" is name a-b (p%) [n], "simple" lacks [n]
PredNames == {<<<<W_D>>, W_10, W_7>>, <<<<W_D, W_St>>, W_7, W_10>>}

PredCells ==
  {[kind |-> "full", name |-> x[1], a |-> x[2], b |-> x[3], p |-> W_75, n |-> n] :
     x \in PredNames, n \in {W_68, W_0}}
  \cup
  {[kind |-> "simple", name |-> x[1], a |-> x[2], b |-> x[3], p |-> W_75, n |-> <<>>] :
     x \in PredNames}
  \cup
  {[kind |-> k, name |-> <<>>, a |-> W_10, b |-> W_7, p |-> W_75, n |-> W_68] :
     k \in {"absent", "placeholder", "nameless"}}

Styles == {"plain", "tight"}

GameText(base, decor, mvp) ==
  Join(base \o decor, <<" ">>) \o (IF mvp THEN MvpSuffix ELSE <<>>)

PredText(c, style) ==
  LET sp   == IF style = "tight" THEN <<>> ELSE <<" ">>
      tail == (IF style = "tight" THEN <<" ", " ">> ELSE <<" ">>)
                \o c.a \o <<"-">> \o c.b \o sp \o <<"(">> \o c.p \o <<"%", ")">>
      poss == sp \o <<"[">> \o c.n \o <<"]">>
  IN CASE c.kind = "full" -> Join(c.name, <<" ">>) \o tail \o poss
       [] c.kind = "simple" -> Join(c.name, <<" ">>) \o tail
       [] c.kind = "nameless" -> c.a \o <<"-">> \o c.b \o <<" ", "(">> \o c.p \o <<"%", ")">>
                                   \o <<" ", "[">> \o c.n \o <<"]">>
       [] OTHER -> W_TBD

\* line 902-909: the row object of the trimmed cell texts; an absent column
\* has no key
RowOf(c) ==
  LET g  == [k \in {"Game"} |-> Trim(GameText(c.base, c.decor, c.mvp))]
      pr == IF c.pred.kind = "absent" THEN g
            ELSE [k \in DOMAIN g \cup {"Prediction"} |->
                    IF k = "Prediction" THEN Trim(PredText(c.pred, c.style)) ELSE g[k]]
  IN IF c.style = "tight" THEN pr
     ELSE [k \in DOMAIN pr \cup {"Thrill Score", "Comeback"} |->
             CASE k = "Thrill Score" -> <<"6", ".", "5", "1", "2">>
               [] k = "Comeback" -> <<"7", " ">> \o MIDDLE_DOT \o <<"3">>
               [] OTHER -> pr[k]]

InitFan ==
  /\ pc = "start"
  /\ NoSession
  /\ cells \in [base : GameBases, decor : Decors, mvp : BOOLEAN,
                pred : PredCells, style : Styles]
  /\ rowData = RowOf(cells)
  /\ games = <<>>
  /\ toks = <<>> /\ pad = "null" /\ gameStr = Null /\ result = emptyResult
  /\ endpoint = "none" /\ html = <<>> /\ season = <<>> /\ data = <<>>
  /\ schema = <<>> /\ locator = 0 /\ cellText = <<>> /\ option = <<>>

ParseFanMatch ==
  /\ pc = "start"
  /\ pc' = "done"
  /\ games' = fanMatchGames(<<rowData>>)
  /\ UNCHANGED <<cells, rowData, gameVars, docVars, argVars, runVars>>

NextFan == ParseFanMatch

SpecFan == InitFan /\ [][NextFan]_vars

----------------------------------------------------------------------------
(* Claims about parseFanMatch *)

\* the difference of the two integers of a score text "a-b"
ScoreDifference(t) ==
  LET k == CHOOSE i \in 1..Len(t) : t[i] = "-"
  IN Numeral(SubSeq(t, 1, k - 1)) - Numeral(SubSeq(t, k + 1, Len(t)))

\* C8: a Prediction cell "name a-b (p%) [n]" gives PredictedWinner = name,
\* PredictedScore = "a-b", WinProbability = "p%", PredictedPossessions = n and
\* PredictedMOV = a - b; without "[n]" the same with PredictedPossessions null;
\* any other cell gives five nulls; PredictedMOV is non-null exactly when
\* PredictedScore is, and is then the difference of its two integers.
C8_PredictionParsing ==
  (pc = "done" /\ games # <<>>) =>
    LET g == games[1]
        c == cells.pred
    IN /\ c.kind \in {"full", "simple"} =>
            /\ g.PredictedWinner = Some(Join(c.name, SPACE))
            /\ g.PredictedScore = Some(c.a \o <<"-">> \o c.b)
            /\ g.WinProbability = Some(c.p \o <<"%">>)
            /\ g.PredictedMOV = Some(Numeral(c.a) - Numeral(c.b))
            /\ g.PredictedPossessions = IF c.kind = "full" THEN Some(Numeral(c.n)) ELSE Null
       /\ c.kind \notin {"full", "simple"} =>
            /\ g.PredictedWinner = Null /\ g.PredictedScore = Null
            /\ g.WinProbability = Null /\ g.PredictedPossessions = Null
            /\ g.PredictedMOV = Null
       /\ (g.PredictedMOV # Null) = (g.PredictedScore # Null)
       /\ g.PredictedScore # Null => g.PredictedMOV = Some(ScoreDifference(g.PredictedScore[1]))

\* a prediction without possessions and a negative margin has been parsed
C8_Witness ==
  /\ pc = "done" /\ games # <<>>
  /\ cells.pred.kind = "simple" /\ cells.style = "tight"
  /\ games[1].PredictedWinner = Some(<<"D", " ", "S", "t", ".">>)
  /\ games[1].PredictedScore = Some(<<"7", "-", "1", "0">>)
  /\ games[1].PredictedMOV = Some(0 - 3)
  /\ games[1].PredictedPossessions = Null

\* the Game cell holds a bracketed count
HasBracket == \E i \in 1..Len(cells.decor) : cells.decor[i] = W_P68

\* C9 as stated: Possessions is the bracketed count of the Game cell when there
\* is one; otherwise the decimal string of PredictedPossessions when that is
\* non-null; it is null only when both are missing.
C9_PossessionsFallback ==
  (pc = "done" /\ games # <<>>) =>
    LET g == games[1]
    IN /\ HasBracket => g.Possessions = Some(W_68)
       /\ (~HasBracket /\ g.PredictedPossessions # Null) => g.Possessions = Some(cells.pred.n)
       /\ g.Possessions = Null => (~HasBracket /\ g.PredictedPossessions = Null)

----------------------------------------------------------------------------
(* Documents fed to the season-dependent parsers *)

MaxTables == 2
MaxRows == 2

\* the widest schema has 22 columns
RowWidth == 22

Th(texts) == [th |-> TRUE, cells |-> texts]

Td(texts) == [th |-> FALSE, cells |-> texts]

\* a data row of RowWidth cells: a first cell, then the cell's own number
WideRow(first) == Td([j \in 1..RowWidth |-> IF j = 1 THEN first ELSE NumberToString(j)])

T_Team == <<"T", "e", "a", "m">>

T_Date == <<"D", "a", "t", "e">>

T_Seeded == <<"D", "u", "k", "e", " ", "1">>

T_Player == <<"J", " ", "S", ",", " ", "D", " ", "6", "-", "5", " ", "·", " ", "1", "9", "5", ",", " ", "J", "r", ",", " ", "X", ",", " ", "N">>

T_ConfTournament == <<"A", " ", "C", "o", "n", "f", "e", "r", "e", "n", "c", "e", " ", "T", "o", "u", "r", "n", "a", "m", "e", "n", "t">>

HeaderRow == Th(<<T_Team, T_Date>>)

LeakedHeaderRow == Td(<<T_Team, T_Team, T_Team>>)

DateHeaderRow == Td(<<T_Date, T_Date>>)

TournamentRow == Td(<<T_ConfTournament>>)

PlayerRow == Td(<<<<"1">>, T_Player, <<"9", "8">>>>)

Rows == {WideRow(T_Seeded), LeakedHeaderRow, DateHeaderRow, TournamentRow, PlayerRow}

Bodies == UNION {[1..n -> Rows] : n \in 0..MaxRows}

\* a table whose rows are all in its <thead> has no <tbody>
Tables ==
  {[hasTbody |-> TRUE, head |-> <<HeaderRow>>, tbody |-> b] : b \in Bodies}
    \cup {[hasTbody |-> FALSE, head |-> <<HeaderRow>> \o b, tbody |-> <<>>] : b \in Bodies}

PlainTable == [hasTbody |-> TRUE, head |-> <<HeaderRow>>, tbody |-> <<PlayerRow, WideRow(T_Seeded)>>]

\* the documents of up to MaxTables tables, one of them any table
Documents ==
  {<<>>} \cup {[i \in 1..n |-> IF i = k THEN t ELSE PlainTable] :
                 t \in Tables, n \in 1..MaxTables, k \in 1..MaxTables}

Years == {2007, 2008, 2009, 2010, 2012, 2013, 2025}

Seasons == {Null, Some(0)} \cup {Some(y) : y \in Years}

Endpoints == {"efficiency", "height", "schedule", "kpoy"}

InitSeason ==
  /\ pc = "start"
  /\ NoSession
  /\ endpoint \in Endpoints
  /\ html \in Documents
  /\ season \in Seasons
  /\ data = <<>>
  /\ toks = <<>> /\ pad = "null" /\ gameStr = Null /\ result = emptyResult
  /\ cells = <<>> /\ rowData = <<>> /\ games = <<>>
  /\ schema = <<>> /\ locator = 0 /\ cellText = <<>> /\ option = <<>>

ParseSeason ==
  /\ pc = "start"
  /\ endpoint \in Endpoints
  /\ data' = parseOf(endpoint, html, season)
  /\ pc' = "done"
  /\ UNCHANGED <<endpoint, html, season, gameVars, fanVars, argVars, runVars>>

NextSeason == ParseSeason

SpecSeason == InitSeason /\ [][NextSeason]_vars

\* the seasons of the most recent era of an endpoint's page
LatestEra(e) ==
  {y \in Years : y >= (CASE e = "height" -> 2008 [] e = "kpoy" -> 2013 [] OTHER -> 2010)}

\* C10: a parser called with a null season returns what it returns for a
\* season of the most recent era: the 18-column efficiency schema, the
\* 22-column height schema, the 11-column schedule schema with "Team Rank",
\* and for parseKpoy the MVP table parsed when there is more than one table
C10_NullSeasonLatestEra ==
  (pc = "done" /\ season = Null) =>
    /\ \A y \in LatestEra(endpoint) : data = parseOf(endpoint, html, Some(y))
    /\ (endpoint = "kpoy" /\ Len(html) > 1) => data.value.mvp # Null

----------------------------------------------------------------------------
(* Schema selection by season *)

\* the column schema a parser selects for a season
schemaOf(e, y) ==
  CASE e = "efficiency" -> efficiencyColumns(y)
    [] e = "height" -> heightColumns(y)
    [] OTHER -> scheduleColumns(y)

\* the year in which the page of an endpoint gained columns
ThresholdYear(e) == IF e = "height" THEN 2008 ELSE 2010

\* C11: for parseEfficiency, parseHeight and parseSchedule and every integer
\* season y, the schema selected for y is at least as long as the schema
\* selected for y - 1, and of equal length unless y is the threshold year
C11_SchemaMonotonic ==
  (pc = "done" /\ season # Null /\ endpoint \in {"efficiency", "height", "schedule"}) =>
    LET y == season[1]
    IN /\ Len(schemaOf(endpoint, Some(y))) >= Len(schemaOf(endpoint, Some(y - 1)))
       /\ (y # ThresholdYear(endpoint) =>
             Len(schemaOf(endpoint, Some(y))) = Len(schemaOf(endpoint, Some(y - 1))))

----------------------------------------------------------------------------
(* extractRows on its own *)

MaxCols == 3

PaddedRow == Td(<<<<" ", "x", " ">>, <<>>, <<"y", "\n">>, <<"z">>>>)

ExtractRowsRows == Rows \cup {HeaderRow, PaddedRow}

ExtractBodies == UNION {[1..n -> ExtractRowsRows] : n \in 0..MaxRows}

ExtractTables ==
  {[hasTbody |-> TRUE, head |-> <<HeaderRow>>, tbody |-> b] : b \in ExtractBodies}
    \cup {[hasTbody |-> FALSE, head |-> b, tbody |-> <<>>] : b \in ExtractBodies}

ColumnNames == {"Rank", "Team", "Conference"}

ColumnLists == UNION {[1..n -> ColumnNames] : n \in 0..MaxCols}

InitRows ==
  /\ pc = "start"
  /\ NoSession
  /\ endpoint = "extractRows"
  /\ html \in {<<t>> : t \in ExtractTables}
  /\ schema \in ColumnLists
  /\ season = <<>> /\ data = <<>>
  /\ locator = 0 /\ cellText = <<>> /\ option = <<>>
  /\ toks = <<>> /\ pad = "null" /\ gameStr = Null /\ result = emptyResult
  /\ cells = <<>> /\ rowData = <<>> /\ games = <<>>

ExtractRows ==
  /\ pc = "start"
  /\ endpoint = "extractRows"
  /\ data' = extractRows(html[1], schema)
  /\ pc' = "done"
  /\ UNCHANGED <<endpoint, html, season, gameVars, fanVars, argVars, runVars>>

NextRows == ExtractRows

SpecRows == InitRows /\ [][NextRows]_vars

\* no name occurs twice in the list
Distinct(names) == \A i, j \in 1..Len(names) : names[i] = names[j] => i = j

\* the rows of the table, head first
AllRows(t) == t.head \o t.tbody

\* the body rows that hold at least one <td> cell, in document order
CellRows(t) ==
  LET body == IF t.hasTbody THEN t.tbody
              ELSE IF AllRows(t) = <<>> THEN <<>> ELSE Tail(AllRows(t))
  IN SelectSeq(body, LAMBDA r : ~r.th /\ r.cells # <<>>)

\* output row o is the row of body row r under the column names
IsRowOf(o, r, names) ==
  LET m == IF Len(r.cells) < Len(names) THEN Len(r.cells) ELSE Len(names)
  IN /\ DOMAIN o = {names[j] : j \in 1..m}
     /\ \A j \in 1..m : o[names[j]] = Trim(r.cells[j])

\* the output has one row per body row with cells, in order, each with the
\* keys of the leading columns and the trimmed cell texts
OneRowPerCellRow ==
  /\ Len(data) = Len(CellRows(html[1]))
  /\ \A i \in 1..Len(data) : IsRowOf(data[i], CellRows(html[1])[i], schema)

\* C12 as stated: for any table and any list of distinct column names the
\* output has exactly one row for each body row holding a <td> cell, with the
\* keys columns[0 .. min(c, |columns|) - 1] mapped to the trimmed cell texts
C12_ExtractRowsAsStated ==
  (pc = "done" /\ endpoint = "extractRows" /\ Distinct(schema)) => OneRowPerCellRow

\* C12 amended: the same for any non-empty list of distinct column names; with
\* an empty list of column names the output is empty
C12_ExtractRows ==
  (pc = "done" /\ endpoint = "extractRows" /\ Distinct(schema)) =>
    IF schema = <<>> THEN data = <<>> ELSE OneRowPerCellRow

\* a table without <tbody> whose two rows both have more cells than the two
\* distinct column names has been read: its second row alone is returned
C12_Witness ==
  /\ pc = "done" /\ endpoint = "extractRows"
  /\ Distinct(schema) /\ Len(schema) = 2
  /\ ~html[1].hasTbody /\ html[1].head = <<PaddedRow, PaddedRow>>
  /\ Len(data) = 1 /\ DOMAIN data[1] = {schema[1], schema[2]}
  /\ data[1][schema[1]] = <<"x">> /\ data[1][schema[2]] = <<>>

----------------------------------------------------------------------------
(* The fixed-schema normalizers on documents of one table *)

T_Duke == <<"D", "u", "k", "e">>

T_Arena == <<"C", "a", "m", "e", "r", "o", "n", " ", "(", "9", "3", "1", "4", ")">>

T_Location == <<"D", "u", "r", "h", "a", "m", " ", "(", "C", "a", "m", "e", "r", "o", "n", ")">>

DataRow == Td(<<<<"5">>, T_Seeded, <<"x">>, T_Arena, T_Location, <<"y">>, <<"z">>>>)

NormalizerRows ==
  {DataRow, HeaderRow,
   Td(<<L_Rk, L_Team, <<"x">>>>),
   Td(<<L_Rank, L_Team, L_Rating>>),
   Td(<<L_Team, <<"x">>>>),
   Td(<<<<>>, T_Duke, <<"x">>>>),
   Td(<<<<"5">>, <<>>, <<"x">>>>),
   Td(<<L_Rank, T_Duke, <<"x">>>>),
   Td(<<<<"5">>, L_Team, <<"x">>>>),
   Td(<<<<"5">>, T_Duke, L_Rating>>),
   Td(<<<<"7">>>>)}

NormalizerDocuments ==
  {<<>>} \cup
  {<<[hasTbody |-> TRUE, head |-> <<HeaderRow>>, tbody |-> b]>> :
     b \in UNION {[1..n -> NormalizerRows] : n \in 0..MaxRows}}

\* the calls: a normalizer and its second argument
NormalizerCalls ==
  {<<e, <<>>>> : e \in {"parsePomeroyRatings", "parseFourFactors", "parsePointDist", "parseRefs",
                        "parseHca", "parseArenas", "parseGameAttribs", "parseProgramRatings"}}
    \cup {<<e, y>> : e \in {"parseEfficiency", "parseHeight"}, y \in {Null, Some(2007)}}
    \cup {<<"parseTeamStats", d>> : d \in BOOLEAN}
    \cup {<<"parsePlayerStats", mt>> : mt \in {"eFG", "3P", "ORtg"}}

InitNormalizer ==
  /\ pc = "start"
  /\ NoSession
  /\ \E c \in NormalizerCalls : endpoint = c[1] /\ option = c[2]
  /\ html \in NormalizerDocuments
  /\ season = <<>> /\ data = <<>>
  /\ schema = <<>> /\ locator = 0 /\ cellText = <<>>
  /\ toks = <<>> /\ pad = "null" /\ gameStr = Null /\ result = emptyResult
  /\ cells = <<>> /\ rowData = <<>> /\ games = <<>>

Normalize ==
  /\ pc = "start"
  /\ data' = normalizerOf(endpoint, html, option)
  /\ pc' = "done"
  /\ UNCHANGED <<endpoint, html, season, gameVars, fanVars, argVars, runVars>>

NextNormalizer == Normalize

SpecNormalizer == InitNormalizer /\ [][NextNormalizer]_vars

\* the column names of a normalizer call
ColumnsOf(e, opt) ==
  CASE e = "parsePomeroyRatings" -> RatingsColumns
    [] e = "parseEfficiency" -> efficiencyColumns(opt)
    [] e = "parseFourFactors" -> FourFactorsColumns
    [] e = "parseTeamStats" -> teamStatsColumns(opt)
    [] e = "parsePointDist" -> PointDistColumns
    [] e = "parseHeight" -> heightColumns(opt)
    [] e = "parsePlayerStats" -> playerStatsColumns(opt)
    [] e = "parseRefs" -> RefsColumns
    [] e = "parseHca" -> HcaColumns
    [] e = "parseArenas" -> ArenasColumns
    [] e = "parseGameAttribs" -> GameAttribsColumns
    [] e = "parseProgramRatings" -> ProgramRatingsColumns

\* the identifying column of a normalizer: the first of its columns
IdKey(e) == ColumnsOf(e, IF e = "parsePlayerStats" THEN "eFG" ELSE IF e = "parseTeamStats" THEN FALSE ELSE Null)[1]

\* the column whose header label marks a repeated header row
HeaderKey(e) ==
  CASE e \in {"parseArenas", "parseProgramRatings"} -> "Team"
    [] e = "parseRefs" -> "Rating"
    [] OTHER -> IdKey(e)

\* the header label of a column: its name
LabelOf(key) ==
  CASE key = "Rk" -> L_Rk [] key = "Rank" -> L_Rank [] key = "Rating" -> L_Rating
    [] OTHER -> L_Team

\* the columns a normalizer rewrites
Rewritten(e, opt) ==
  CASE e \in {"parsePomeroyRatings", "parseEfficiency", "parseFourFactors", "parseTeamStats",
              "parsePointDist", "parseHeight"} -> {"Team"}
    [] e = "parseArenas" -> {"Arena", "Alternate"}
    [] e = "parseGameAttribs" -> {"Location"}
    [] e = "parsePlayerStats" /\ opt = "ORtg" -> {"ORtg"}
    [] OTHER -> {}

\* the records are those of the rows, in order: equal on every column the
\* normalizer does not rewrite or drop
RecordsOf(records, rows, e, opt) ==
  /\ Len(records) = Len(rows)
  /\ \A i \in 1..Len(records) :
       \A k \in (DOMAIN rows[i] \cap DOMAIN records[i]) \ Rewritten(e, opt) :
         records[i][k] = rows[i][k]

\* the rows extracted from the first table under the call's columns
Extracted == extractRows(html[1], ColumnsOf(endpoint, option))

\* C13 as stated: no returned record has its identifying cell equal to the
\* header label or empty, and every other extracted body row is returned, in
\* the original order
C13_HeaderRowsAsStated ==
  (pc = "done" /\ endpoint \in {c[1] : c \in NormalizerCalls} /\ data.ok) =>
    /\ \A i \in 1..Len(data.value) :
         /\ data.value[i][IdKey(endpoint)] # LabelOf(IdKey(endpoint))
         /\ data.value[i][IdKey(endpoint)] # <<>>
    /\ RecordsOf(data.value,
                 SelectSeq(Extracted, LAMBDA row : /\ row[IdKey(endpoint)] # LabelOf(IdKey(endpoint))
                                                   /\ row[IdKey(endpoint)] # <<>>),
                 endpoint, option)

\* the row is one a normalizer returns: its header-test cell is not the label,
\* its first cell is not empty and, for parsePlayerStats, its Player cell is
\* not empty
Returned(row, e) ==
  /\ Cell(row, HeaderKey(e)) # Some(LabelOf(HeaderKey(e)))
  /\ row[IdKey(e)] # <<>>
  /\ e = "parsePlayerStats" => Cell(row, "Player") # Some(<<>>)

\* what the normalizers return: in the original order, the records of the
\* extracted body rows whose raw header-test cell (Rating for parseRefs, Team
\* for parseArenas and parseProgramRatings, else the first column) is not the
\* header label, whose raw first cell is not empty and, for parsePlayerStats,
\* whose Player cell is not empty
ReturnedRowsRule ==
  (pc = "done" /\ endpoint \in {c[1] : c \in NormalizerCalls} /\ data.ok) =>
    RecordsOf(data.value, SelectSeq(Extracted, LAMBDA row : Returned(row, endpoint)),
              endpoint, option)

----------------------------------------------------------------------------
(* Cell texts: seeds and arena capacities *)

MaxWords == 3

CellWords == {<<"D", "u", "k", "e">>, <<"S", "t", ".">>, <<"1", "2">>, <<"A", "1">>, <<"(", "9", "3", "1", "4", ")">>, <<"(", "B", ")">>}

\* the cell texts: up to MaxWords words, joined with or without a space,
\* bare or padded with spaces
CellTexts ==
  {pd \o Join(w, sep) \o pd :
     w \in UNION {[1..n -> CellWords] : n \in 0..MaxWords},
     sep \in {<<" ">>, <<>>}, pd \in {<<>>, <<" ">>}}

\* a page whose table has a Team column holding the text
TeamDocument(t) ==
  <<[hasTbody |-> TRUE, head |-> <<Th(<<L_Rk, L_Team>>)>>, tbody |-> <<Td(<<<<"5">>, t>>)>>]>>

\* a page whose table has the text in the Arena cell and, when alt is given,
\* alt in the Alternate cell
ArenaDocument(t, alt) ==
  <<[hasTbody |-> TRUE, head |-> <<>>,
     tbody |-> <<Td(<<<<"5">>, T_Duke, <<"x">>, t>> \o (IF alt = Null THEN <<>> ELSE <<alt[1]>>))>>]>>

AlternateCells == {Null, Some(<<>>), Some(<<"G", "y", "m", "(", "5", ")">>), Some(<<"(", "7", ")">>)}

InitCell ==
  /\ pc = "start"
  /\ NoSession
  /\ cellText \in CellTexts
  /\ \/ endpoint \in {"stripSeed", "parsePomeroyRatings", "parseConferenceStandings"} /\ option = <<>>
     \/ endpoint = "parseArenas" /\ option \in AlternateCells
  /\ html = IF endpoint = "stripSeed" THEN <<>>
            ELSE IF endpoint = "parseArenas" THEN ArenaDocument(cellText, option)
            ELSE TeamDocument(cellText)
  /\ season = <<>> /\ data = <<>>
  /\ schema = <<>> /\ locator = 0
  /\ toks = <<>> /\ pad = "null" /\ gameStr = Null /\ result = emptyResult
  /\ cells = <<>> /\ rowData = <<>> /\ games = <<>>

StripSeed ==
  /\ pc = "start" /\ endpoint = "stripSeed"
  /\ data' = stripSeed(Some(cellText))
  /\ pc' = "done"
  /\ UNCHANGED <<endpoint, html, season, gameVars, fanVars, argVars, runVars>>

SplitSeed ==
  /\ pc = "start" /\ endpoint \in {"parsePomeroyRatings", "parseConferenceStandings"}
  /\ data' = IF endpoint = "parsePomeroyRatings" THEN parsePomeroyRatings(html)
             ELSE parseConferenceStandings(html)
  /\ pc' = "done"
  /\ UNCHANGED <<endpoint, html, season, gameVars, fanVars, argVars, runVars>>

SplitCapacity ==
  /\ pc = "start" /\ endpoint = "parseArenas"
  /\ data' = parseArenas(html)
  /\ pc' = "done"
  /\ UNCHANGED <<endpoint, html, season, gameVars, fanVars, argVars, runVars>>

NextCell == StripSeed \/ SplitSeed \/ SplitCapacity

SpecCell == InitCell /\ [][NextCell]_vars

\* the raw text of the cell
Raw == Trim(cellText)

\* the digits a text ends with
TrailingNumber(t) ==
  LET starts == {i \in 1..(Len(t) + 1) : \A k \in i..Len(t) : IsDigit(t[k])}
  IN Drop(t, (CHOOSE i \in starts : \A j \in starts : i <= j) - 1)

\* the text has the form "Name N": a name, a space, a trailing number
IsNameSeed(t) ==
  /\ TrailingNumber(t) # <<>>
  /\ Len(t) > Len(TrailingNumber(t)) + 1
  /\ t[Len(t) - Len(TrailingNumber(t))] = " "

\* the name of a text of the form "Name N"
NameOf(t) == TrimEnd(Take(t, Len(t) - Len(TrailingNumber(t)) - 1))

\* the Team and the Seed of the one record returned
TeamField == IF endpoint = "parsePomeroyRatings" THEN data.value[1]["Team"] ELSE data.value[1][L_Team]

SeedField == IF endpoint = "parsePomeroyRatings" THEN data.value[1]["Seed"] ELSE data.value[1][L_Seed]

\* C14: for every record of parsePomeroyRatings or parseConferenceStandings
\* whose raw Team cell is not empty: when the cell is "Name N" with N a
\* trailing number, Team is Name and Seed is N, the seed extractSeed returns
\* on the raw cell; when the cell does not end in a number, Seed is '' and
\* Team is the raw cell
C14_SeedSplitting ==
  (/\ pc = "done" /\ endpoint \in {"parsePomeroyRatings", "parseConferenceStandings"}
   /\ Raw # <<>>) =>
    /\ data.ok /\ Len(data.value) = 1
    /\ IsNameSeed(Raw) =>
         /\ TeamField = NameOf(Raw)
         /\ SeedField = TrailingNumber(Raw)
         /\ extractSeed(Some(Raw)) = Some(TrailingNumber(Raw))
    /\ TrailingNumber(Raw) = <<>> => (SeedField = <<>> /\ TeamField = Raw)

\* C15: stripSeed(stripSeed(s)) = stripSeed(s) for every string s
C15_StripSeedIdempotent ==
  (pc = "done" /\ endpoint = "stripSeed") => stripSeed(Some(data)) = data

\* a padded text with digits in two places has been stripped
C15_Witness ==
  /\ pc = "done" /\ endpoint = "stripSeed"
  /\ cellText = <<" ", "A", "1", " ", "D", "u", "k", "e", " ", "1", "2", " ">>
  /\ data = <<"A", " ", "D", "u", "k", "e">>

\* the index of the last "(" of a text, 0 when there is none
LastOpen(t) ==
  LET at == {i \in 1..Len(t) : t[i] = "("}
  IN IF at = {} THEN 0 ELSE CHOOSE i \in at : \A j \in at : i >= j

\* the text has the form "<name> (<digits>)"
IsNameCapacity(t) ==
  /\ Len(t) >= 4 /\ t[Len(t)] = ")"
  /\ LastOpen(t) > 1 /\ LastOpen(t) < Len(t) - 1
  /\ \A i \in (LastOpen(t) + 1)..(Len(t) - 1) : IsDigit(t[i])

\* the base and the capacity a cell text must give
SplitAsStated(t, base, capacity) ==
  IF IsNameCapacity(t)
  THEN /\ base = Trim(Take(t, LastOpen(t) - 1))
       /\ capacity = SubSeq(t, LastOpen(t) + 1, Len(t) - 1)
  ELSE base = t /\ capacity = <<>>

\* C16: for every record of parseArenas and each of the Arena and Alternate
\* cells: a cell "<name> (<digits>)" gives the trimmed name as the base field
\* and the digits as the capacity; any other cell, the empty and the missing
\* one included, gives the cell text as the base field and '' as the capacity
C16_ArenaCapacity ==
  (pc = "done" /\ endpoint = "parseArenas") =>
    /\ data.ok /\ Len(data.value) = 1
    /\ SplitAsStated(Raw, data.value[1]["Arena"], data.value[1]["Arena.Capacity"])
    /\ SplitAsStated(IF option = Null THEN <<>> ELSE Trim(option[1]),
                     data.value[1]["Alternate"], data.value[1]["Alternate.Capacity"])

\* an arena cell with a parenthesized word and a capacity, and an empty
\* alternate cell, have been split
C16_Witness ==
  /\ pc = "done" /\ endpoint = "parseArenas"
  /\ cellText = <<"D", "u", "k", "e", " ", "(", "B", ")", " ", "(", "9", "3", "1", "4", ")">> /\ option = Some(<<>>)
  /\ data.value[1]["Arena"] = <<"D", "u", "k", "e", " ", "(", "B", ")">>
  /\ data.value[1]["Arena.Capacity"] = <<"9", "3", "1", "4">>
  /\ data.value[1]["Alternate"] = <<>> /\ data.value[1]["Alternate.Capacity"] = <<>>

----------------------------------------------------------------------------
(* Locating a table *)

MaxLocated == 3
MaxIndex == 3

\* a table of one column and one data row
SmallTable(v) == [hasTbody |-> TRUE, head |-> <<Th(<<L_Team>>)>>, tbody |-> <<Td(<<v>>)>>]

LocatorDocuments == UNION {[1..n -> {SmallTable(T_Duke), SmallTable(T_Seeded)}] : n \in 0..MaxLocated}

InitLocate ==
  /\ pc = "start"
  /\ NoSession
  /\ endpoint \in {"getTable", "parseTable"}
  /\ html \in LocatorDocuments
  /\ locator \in 0..MaxIndex
  /\ season = <<>> /\ data = <<>>
  /\ schema = <<>> /\ cellText = <<>> /\ option = <<>>
  /\ toks = <<>> /\ pad = "null" /\ gameStr = Null /\ result = emptyResult
  /\ cells = <<>> /\ rowData = <<>> /\ games = <<>>

GetTable ==
  /\ pc = "start" /\ endpoint = "getTable"
  /\ data' = getTable(html, locator)
  /\ pc' = "done"
  /\ UNCHANGED <<endpoint, html, season, gameVars, fanVars, argVars, runVars>>

ParseTable ==
  /\ pc = "start" /\ endpoint = "parseTable"
  /\ data' = parseTable(html, locator)
  /\ pc' = "done"
  /\ UNCHANGED <<endpoint, html, season, gameVars, fanVars, argVars, runVars>>

NextLocate == GetTable \/ ParseTable

SpecLocate == InitLocate /\ [][NextLocate]_vars

\* the messages of a 'No tables found' error
NoTablesMessages == {"No tables found", "No tables found matching selector: table"}

\* the call returned table k of the document
ReturnedTable(k) ==
  /\ data.ok
  /\ data.value = IF endpoint = "getTable" THEN html[k + 1] ELSE parseTableElement(html[k + 1])

FailedNoTables == ~data.ok /\ data.error.msg \in NoTablesMessages

\* the call failed with 'Table index k out of bounds. Found n tables.'
FailedOutOfBounds(k, n) ==
  ~data.ok /\ data.error = [msg |-> "Table index out of bounds", index |-> k, found |-> n]

\* C17: for a document with n tables and an index k >= 0, getTable and
\* parseTable return table k exactly when k < n, fail with a 'No tables
\* found' error exactly when n = 0, and fail with 'Table index k out of
\* bounds. Found n tables.' exactly when 0 < n <= k; nothing else happens
C17_LocatorOutcomes ==
  (pc = "done" /\ endpoint \in {"getTable", "parseTable"}) =>
    LET n == Len(html)
        k == locator
    IN /\ (k < n) <=> data.ok
       /\ (k < n) => ReturnedTable(k)
       /\ (n = 0) <=> FailedNoTables
       /\ (0 < n /\ n <= k) <=> (~data.ok /\ data.error.msg = "Table index out of bounds")
       /\ (0 < n /\ n <= k) => FailedOutOfBounds(k, n)

\* index 3 was asked of a document of two tables
C17_Witness ==
  /\ pc = "done" /\ endpoint = "getTable"
  /\ Len(html) = 2 /\ locator = 3
  /\ data = Err([msg |-> "Table index out of bounds", index |-> 3, found |-> 2])

----------------------------------------------------------------------------
(* Documents without the table a parser reads *)

TableCalls ==
  NormalizerCalls
    \cup {<<"schedule", Null>>, <<"kpoy", Null>>, <<"kpoy", Some(2013)>>}
    \cup {<<e, <<>>>> : e \in {"parseConferenceStandings", "parseConferenceOffense",
                               "parseConferenceDefense", "parseTrends"}}
    \cup {<<"parseConferenceAggregateStats", b>> : b \in BOOLEAN}

InitAbsent ==
  /\ pc = "start"
  /\ NoSession
  /\ \E c \in TableCalls : endpoint = c[1] /\ option = c[2]
  /\ html \in LocatorDocuments
  /\ season = <<>> /\ data = <<>>
  /\ schema = <<>> /\ locator = 0 /\ cellText = <<>>
  /\ toks = <<>> /\ pad = "null" /\ gameStr = Null /\ result = emptyResult
  /\ cells = <<>> /\ rowData = <<>> /\ games = <<>>

ParseTables ==
  /\ pc = "start"
  /\ data' = tableParserOf(endpoint, html, option)
  /\ pc' = "done"
  /\ UNCHANGED <<endpoint, html, season, gameVars, fanVars, argVars, runVars>>

NextAbsent == ParseTables

SpecAbsent == InitAbsent /\ [][NextAbsent]_vars

\* the document has no table at an index the call reads
NeededTableAbsent ==
  CASE endpoint = "parseConferenceOffense" -> Len(html) <= 1
    [] endpoint = "parseConferenceDefense" -> Len(html) <= 2
    [] endpoint = "parseConferenceAggregateStats" /\ option = TRUE -> Len(html) < 3
    [] OTHER -> Len(html) = 0

\* C18: every parser that reads a table raises an error when the document has
\* no table at the index it reads; it returns no records, no empty list and no
\* empty result object
C18_AbsenceSurfaced ==
  (pc = "done" /\ NeededTableAbsent) => ~data.ok

\* the parsers that read their table through getTable raise the error
AbsenceSurfacedByGetTable ==
  (pc = "done" /\ NeededTableAbsent
     /\ endpoint \notin {"kpoy", "parseConferenceAggregateStats"}) => ~data.ok

----------------------------------------------------------------------------
(* Header rows *)

MaxHeaders == 3

\* parseTrends drops the last five rows
SummaryRows == 5

HeaderTexts ==
  {<<"W">>, <<"L">>, <<>>, <<"C", "o", "l", "u", "m", "n", "1">>, <<" ", "W", " ">>, <<"W", "_", "2">>}

HeaderLists == UNION {[1..n -> HeaderTexts] : n \in 0..MaxHeaders}

\* a data row of n cells "v0", "v1", ...
ValueRow(n) == Td([j \in 1..n |-> <<"v">> \o NumberToString(j - 1)])

ValueRows(n) == [r \in 1..(SummaryRows + 1) |-> ValueRow(n)]

\* a table with the header cells h: in a one-row <thead>, in a <thead> under a
\* row of one group cell, or in the first row of a table without <thead>
HeaderTable(h, layout) ==
  CASE layout = "thead" -> [hasTbody |-> TRUE, head |-> <<Th(h)>>, tbody |-> ValueRows(Len(h))]
    [] layout = "group" -> [hasTbody |-> TRUE, head |-> <<Th(<<<<"G">>>>), Th(h)>>,
                            tbody |-> ValueRows(Len(h) + 1)]
    [] layout = "bare" -> [hasTbody |-> TRUE, head |-> <<>>, tbody |-> <<Td(h)>> \o ValueRows(Len(h))]

\* the index of the table an endpoint reads
TableIndexOf(e) ==
  CASE e = "parseConferenceOffense" -> 1 [] e = "parseConferenceDefense" -> 2 [] OTHER -> 0

ConferenceParsers == {"parseConferenceStandings", "parseConferenceOffense", "parseConferenceDefense"}

InitHeader ==
  /\ pc = "start"
  /\ NoSession
  /\ endpoint \in ConferenceParsers \cup {"parseTableElement", "parseTrends"}
  /\ \E h \in HeaderLists, layout \in {"thead", "group", "bare"} :
       html = [i \in 1..TableIndexOf(endpoint) |-> SmallTable(T_Duke)] \o <<HeaderTable(h, layout)>>
  /\ locator = TableIndexOf(endpoint)
  /\ season = <<>> /\ data = <<>>
  /\ schema = <<>> /\ cellText = <<>> /\ option = <<>>
  /\ toks = <<>> /\ pad = "null" /\ gameStr = Null /\ result = emptyResult
  /\ cells = <<>> /\ rowData = <<>> /\ games = <<>>

ConferenceHeaders ==
  /\ pc = "start" /\ endpoint \in ConferenceParsers
  /\ schema' = headersOf(endpoint, html[locator + 1])
  /\ data' = tableParserOf(endpoint, html, option)
  /\ pc' = "done"
  /\ UNCHANGED <<endpoint, html, season, gameVars, fanVars, locator, cellText, option, runVars>>

ElementHeaders ==
  /\ pc = "start" /\ endpoint = "parseTableElement"
  /\ schema' = headersOf(endpoint, html[locator + 1])
  /\ data' = parseTable(html, locator)
  /\ pc' = "done"
  /\ UNCHANGED <<endpoint, html, season, gameVars, fanVars, locator, cellText, option, runVars>>

TrendsHeaders ==
  /\ pc = "start" /\ endpoint = "parseTrends"
  /\ schema' = headersOf(endpoint, html[locator + 1])
  /\ data' = parseTrends(html)
  /\ pc' = "done"
  /\ UNCHANGED <<endpoint, html, season, gameVars, fanVars, locator, cellText, option, runVars>>

NextHeader == ConferenceHeaders \/ ElementHeaders \/ TrendsHeaders

SpecHeader == InitHeader /\ [][NextHeader]_vars

\* the header cells of the table, in the order read
HeaderCells ==
  IF endpoint = "parseTableElement" THEN headerRowCells(html[locator + 1])
  ELSE theadCells(html[locator + 1])

\* the trimmed text of the header cell at position i, counted from 0
TextAt(i) == Trim(HeaderCells[i + 1])

NameAt(i) == schema[i + 1]

\* the names assigned to the header cells before position i
EarlierNames(i) == {schema[j] : j \in 1..i}

Placeholder(i) == L_Column \o NumberToString(i)

\* 'T.Rank' for the conference parsers, 'T_i' for parseTableElement
Suffixed(t, i) ==
  IF endpoint = "parseTableElement" THEN t \o <<"_">> \o NumberToString(i) ELSE t \o L_DotRank

Derived == pc = "done" /\ endpoint \in ConferenceParsers \cup {"parseTableElement"}

\* C19 as stated: a header cell whose text T equals a name assigned earlier is
\* named 'T.Rank' by the conference parsers and 'T_i' by parseTableElement, a
\* header cell with empty text at position i is named 'Column' followed by i,
\* and every other header cell keeps its trimmed text
C19_HeaderNamesAsStated ==
  Derived =>
    /\ Len(schema) = Len(HeaderCells)
    /\ \A i \in 0..(Len(HeaderCells) - 1) :
         NameAt(i) = IF TextAt(i) = <<>> THEN Placeholder(i)
                     ELSE IF TextAt(i) \in EarlierNames(i) THEN Suffixed(TextAt(i), i)
                     ELSE TextAt(i)

\* the text of a header cell: its trimmed text, or its placeholder
TextOrPlaceholder(i) == IF TextAt(i) = <<>> THEN Placeholder(i) ELSE TextAt(i)

\* C19: the text of the header cell at position i is its trimmed text, or
\* 'Column' followed by i when that is empty; a cell whose text equals a name
\* assigned earlier gets the suffix ('.Rank' in the conference parsers, '_i' in
\* parseTableElement), every other cell keeps its text; the records returned
\* have these names as their keys
C19_HeaderNames ==
  Derived =>
    /\ Len(schema) = Len(HeaderCells)
    /\ \A i \in 0..(Len(HeaderCells) - 1) :
         NameAt(i) = IF TextOrPlaceholder(i) \in EarlierNames(i)
                     THEN Suffixed(TextOrPlaceholder(i), i)
                     ELSE TextOrPlaceholder(i)
    /\ data.ok
    /\ \A k \in 1..Len(data.value) : DOMAIN data.value[k] = Range(schema)

\* a repeated text, then an empty cell, have been named by a conference parser
C19_Witness ==
  /\ pc = "done" /\ endpoint = "parseConferenceOffense"
  /\ HeaderCells = <<<<"W">>, <<" ", "W", " ">>, <<>>>>
  /\ schema = <<<<"W">>, <<"W", ".", "R", "a", "n", "k">>, <<"C", "o", "l", "u", "m", "n", "2">>>>
  /\ Len(data.value) = SummaryRows + 1
  /\ data.value[1][<<"W", ".", "R", "a", "n", "k">>] = <<"v", "1">>

\* C20: parseTrends reads its column names from the header cells in order, an
\* empty header text at position i becomes 'Column' followed by i, and a
\* header text that repeats an earlier one gets a distinguishing suffix: two
\* columns with the same header text give two distinct keys in every
\* full-width row, and neither cell value overwrites the other
C20_TrendsDistinctKeys ==
  (pc = "done" /\ endpoint = "parseTrends") =>
    /\ Len(schema) = Len(HeaderCells)
    /\ \A i \in 0..(Len(HeaderCells) - 1) :
         /\ TextAt(i) = <<>> => NameAt(i) = Placeholder(i)
         /\ \A j \in (i + 1)..(Len(HeaderCells) - 1) :
              TextAt(i) = TextAt(j) =>
                /\ NameAt(i) # NameAt(j)
                /\ \A k \in 1..Len(data.value) :
                     /\ data.value[k][NameAt(i)] = <<"v">> \o NumberToString(i)
                     /\ data.value[k][NameAt(j)] = <<"v">> \o NumberToString(j)

----------------------------------------------------------------------------
(* The KenpomAPI session (src/src/api.ts): login(), close() and the data    *)
(* methods of one instance.  A client is known by the number of its         *)
(* creation, 0 is null; a step is the code between two awaits.              *)

MaxLogins == 2
MaxCloses == 2

parserVars == <<pc, gameVars, fanVars, docVars, argVars>>

ClientTiers == {"auto", "tier1", "tier2", "cloudscraper", "puppeteer", "tier3"}

\* lines 165-172: the legacy names of the tiers
normalizedTier(t) ==
  CASE t = "cloudscraper" -> "tier1" [] t = "puppeteer" -> "tier2" [] OTHER -> t

\* mutant: the headless browser is tried first
tiersOf_tier2First(t) ==
  IF normalizedTier(t) = "auto" THEN <<"tier2", "tier1">> ELSE <<normalizedTier(t)>>

\* lines 174-176: the tiers login() tries, in order
tiersOf(t) ==
  IF normalizedTier(t) = "auto" THEN <<"tier1", "tier2">> ELSE <<normalizedTier(t)>>

\* the state after the constructor (lines 104-150)
InitSession ==
  /\ pc = "start"
  /\ clientTier \in ClientTiers
  /\ client = 0 /\ clientType = "null" /\ isLoggedIn = FALSE /\ closePuppeteer = 0
  /\ browsers = <<>> /\ verified = {}
  /\ loginPc = "idle" /\ tiers = <<>> /\ session = 0 /\ attempts = <<>> /\ closePc = "idle"
  /\ lastReturn = "none" /\ lastCall = [kind |-> "none", verified |-> FALSE]
  /\ calls = [login |-> 0, close |-> 0, clients |-> 0]
  /\ NoCli
  /\ toks = <<>> /\ pad = "null" /\ gameStr = Null /\ result = emptyResult
  /\ cells = <<>> /\ rowData = <<>> /\ games = <<>>
  /\ endpoint = "none" /\ html = <<>> /\ season = <<>> /\ data = <<>>
  /\ schema = <<>> /\ locator = 0 /\ cellText = <<>> /\ option = <<>>

\* the attempts, the current one with its outcome
SetOutcome(o) == [attempts EXCEPT ![Len(attempts)].outcome = o]

\* lines 196-200: the failed client is dropped, then the next tier is tried
\* or login() throws 'All login attempts failed'
NextTierOrThrow(att) ==
  /\ client' = 0
  /\ IF Len(tiers) > 1
     THEN /\ tiers' = Tail(tiers)
          /\ attempts' = Append(att, [tier |-> tiers[2], outcome |-> "pending"])
          /\ loginPc' = "create"
          /\ lastReturn' = lastReturn
     ELSE /\ tiers' = <<>>
          /\ attempts' = att
          /\ loginPc' = "idle"
          /\ lastReturn' = "loginThrew"

\* lines 187-197: the catch block of an attempt; with a _closePuppeteer it
\* closes that browser and awaits
Catch ==
  IF closePuppeteer # 0
  THEN /\ browsers' = [browsers EXCEPT ![closePuppeteer] = "closed"]
       /\ attempts' = SetOutcome("failed")
       /\ loginPc' = "cleanup"
       /\ UNCHANGED <<client, tiers, lastReturn>>
  ELSE /\ NextTierOrThrow(SetOutcome("failed"))
       /\ UNCHANGED browsers

\* login() is called (lines 163-181)
LoginCall ==
  /\ loginPc = "idle" /\ calls.login < MaxLogins
  /\ tiers' = tiersOf(clientTier)
  /\ attempts' = <<[tier |-> tiersOf(clientTier)[1], outcome |-> "pending"]>>
  /\ loginPc' = "create"
  /\ calls' = [calls EXCEPT !.login = @ + 1]
  /\ UNCHANGED <<fieldVars, browsers, verified, session, closePc, lastReturn, lastCall, parserVars, cliVars>>

\* _loginWithTier (lines 207-218) up to the client: lines 225-230 for tier1,
\* lines 267-270 for tier2; an unknown tier and a failed creation throw
CreateClient ==
  /\ loginPc = "create"
  /\ \/ /\ tiers[1] = "tier1"
        /\ session' = calls.clients + 1
        /\ client' = calls.clients + 1
        /\ clientType' = "tier1"
        /\ calls' = [calls EXCEPT !.clients = @ + 1]
        /\ loginPc' = "network"
        /\ UNCHANGED <<closePuppeteer, browsers, tiers, attempts, lastReturn>>
     \/ /\ tiers[1] = "tier2"
        /\ session' = calls.clients + 1
        /\ client' = calls.clients + 1
        /\ clientType' = "tier2"
        /\ closePuppeteer' = calls.clients + 1
        /\ browsers' = browsers @@ ((calls.clients + 1) :> "open")
        /\ calls' = [calls EXCEPT !.clients = @ + 1]
        /\ loginPc' = "network"
        /\ UNCHANGED <<tiers, attempts, lastReturn>>
     \/ /\ Catch
        /\ UNCHANGED <<clientType, closePuppeteer, session, calls>>
  /\ UNCHANGED <<clientTier, isLoggedIn, verified, closePc, lastCall, parserVars, cliVars>>

\* the requests of the login form (lines 232-254 for tier1, 272-285 for
\* tier2), then the request of the verification; a closed browser and a null
\* client make them fail
SubmitLogin ==
  /\ loginPc = "network"
  /\ \/ /\ tiers[1] = "tier2" => browsers[session] = "open"
        /\ tiers[1] = "tier1" => client # 0
        /\ loginPc' = "verify"
        /\ UNCHANGED <<client, browsers, tiers, attempts, lastReturn>>
     \/ Catch
  /\ UNCHANGED <<clientTier, clientType, isLoggedIn, closePuppeteer, verified, session,
                 closePc, lastCall, calls, parserVars, cliVars>>

\* the verification (lines 287-293 for tier2, 300-308 for tier1): isLoggedIn
\* is set when the page holds 'Logged in as'
VerifyLogin ==
  /\ loginPc = "verify"
  /\ \/ /\ tiers[1] = "tier2" => browsers[session] = "open"
        /\ isLoggedIn' = TRUE
        /\ verified' = IF client = session THEN verified \cup {session} ELSE verified
        /\ attempts' = SetOutcome("succeeded")
        /\ tiers' = <<>>
        /\ loginPc' = "idle"
        /\ lastReturn' = "login"
        /\ UNCHANGED <<client, browsers>>
     \/ /\ Catch
        /\ UNCHANGED <<isLoggedIn, verified>>
  /\ UNCHANGED <<clientTier, clientType, closePuppeteer, session, closePc, lastCall, calls, parserVars, cliVars>>

\* the catch block after its await (lines 196-197)
Cleanup ==
  /\ loginPc = "cleanup"
  /\ NextTierOrThrow(attempts)
  /\ UNCHANGED <<clientTier, clientType, isLoggedIn, closePuppeteer, browsers, verified, session,
                 closePc, lastCall, calls, parserVars, cliVars>>

\* close() is called (lines 347-354); it awaits when it closes a browser
Close ==
  /\ closePc = "idle" /\ calls.close < MaxCloses
  /\ verified' = {}
  /\ IF clientType = "tier2" /\ closePuppeteer # 0
     THEN /\ browsers' = [browsers EXCEPT ![closePuppeteer] = "closed"]
          /\ closePc' = "awaiting"
          /\ UNCHANGED <<client, isLoggedIn, lastReturn, calls>>
     ELSE /\ client' = 0
          /\ isLoggedIn' = FALSE
          /\ lastReturn' = "close"
          /\ calls' = [calls EXCEPT !.close = @ + 1]
          /\ UNCHANGED <<browsers, closePc>>
  /\ UNCHANGED <<clientTier, clientType, closePuppeteer, loginPc, tiers, session, attempts,
                 lastCall, parserVars, cliVars>>

\* close() after its await (lines 351-353)
CloseReturn ==
  /\ closePc = "awaiting"
  /\ client' = 0
  /\ isLoggedIn' = FALSE
  /\ closePc' = "idle"
  /\ lastReturn' = "close"
  /\ calls' = [calls EXCEPT !.close = @ + 1]
  /\ UNCHANGED <<clientTier, clientType, closePuppeteer, browsers, verified, loginPc, tiers,
                 session, attempts, lastCall, parserVars, cliVars>>

\* _verifySession (lines 314-318)
sessionActive == client # 0 /\ isLoggedIn

\* a data method is called (e.g. lines 371-373): _verifySession, then the
\* validation of the arguments, then the fetch with the current client
DataCall ==
  /\ \E valid \in BOOLEAN :
       lastCall' = [kind |-> IF ~sessionActive THEN "notLoggedIn"
                             ELSE IF ~valid THEN "invalidArgument" ELSE "fetch",
                    verified |-> client \in verified]
  /\ UNCHANGED <<fieldVars, browsers, verified, loginPc, tiers, session, attempts, closePc,
                 lastReturn, calls, parserVars, cliVars>>

NextSession ==
  \/ LoginCall \/ CreateClient \/ SubmitLogin \/ VerifyLogin \/ Cleanup
  \/ Close \/ CloseReturn \/ DataCall

SpecSession == InitSession /\ [][NextSession]_vars

\* C21: a data method issues a fetch only when the current client has passed
\* the login verification and close() has not been called since; in every
\* other state it fails with 'Not logged in. Call login() first.' before it
\* validates its arguments
C21_SessionGating ==
  lastCall.kind \in {"fetch", "invalidArgument"} => lastCall.verified

\* the attempts made so far are the first tiers of the order, each one begun
\* after the one before it failed
InOrder(order) ==
  /\ Len(attempts) <= Len(order)
  /\ \A i \in 1..Len(attempts) :
       /\ attempts[i].tier = order[i]
       /\ i < Len(attempts) => attempts[i].outcome = "failed"

\* C22: with 'auto' login() attempts tier1 first and tier2 only after tier1
\* failed, with a specific tier it attempts that tier only; it returns when
\* an attempt succeeds, with isLoggedIn = true and clientType the tier that
\* succeeded; when every attempt failed it throws and leaves client = null;
\* it makes at most two attempts
C22_TierFallback ==
  /\ Len(attempts) <= 2
  /\ InOrder(IF normalizedTier(clientTier) = "auto" THEN <<"tier1", "tier2">>
             ELSE <<normalizedTier(clientTier)>>)
  /\ (loginPc = "idle" /\ lastReturn = "login") =>
       /\ attempts[Len(attempts)].outcome = "succeeded"
       /\ isLoggedIn
       /\ clientType = attempts[Len(attempts)].tier
  /\ (loginPc = "idle" /\ lastReturn = "loginThrew") =>
       /\ Len(attempts) = (IF normalizedTier(clientTier) = "auto" THEN 2 ELSE 1)
       /\ \A i \in 1..Len(attempts) : attempts[i].outcome = "failed"
       /\ client = 0

\* an 'auto' login has returned after tier1 failed and tier2 succeeded
C22_Witness ==
  /\ clientTier = "auto" /\ loginPc = "idle" /\ lastReturn = "login"
  /\ attempts = <<[tier |-> "tier1", outcome |-> "failed"], [tier |-> "tier2", outcome |-> "succeeded"]>>
  /\ isLoggedIn /\ clientType = "tier2"

\* C28: once a close() call has returned, with no login() in progress, every
\* headless browser the instance obtained has been closed
C28_NoLeakedBrowser ==
  (lastReturn = "close" /\ loginPc = "idle") =>
    \A b \in DOMAIN browsers : browsers[b] = "closed"

----------------------------------------------------------------------------
(* Season validation in the data methods (src/src/api.ts,                   *)
(* src/unnamed/part_003); the session is active                             *)

\* MIN_SEASONS (part_003 lines 111-126)
MIN_SEASONS ==
  [POMEROY_RATINGS |-> 1999, EFFICIENCY |-> 1999, FOUR_FACTORS |-> 1999, TEAM_STATS |-> 1999,
   POINT_DIST |-> 1999, VALID_TEAMS |-> 1999, SCHEDULE |-> 1999, PLAYER_STATS |-> 2004,
   HEIGHT |-> 2007, ARENAS |-> 2010, GAME_ATTRIBS |-> 2010, KPOY |-> 2011, FANMATCH |-> 2014,
   REFS |-> 2016]

\* validateSeason (part_003 lines 176-183) throws
validateSeason(y, key) ==
  key \in DOMAIN MIN_SEASONS /\ SeasonGiven(y) /\ y[1] < MIN_SEASONS[key]

\* the key a data method passes to validateSeason
seasonKeyOf(method) ==
  CASE method = "getPomeroyRatings" -> "POMEROY_RATINGS"
    [] method = "getEfficiency" -> "EFFICIENCY"
    [] method = "getFourFactors" -> "FOUR_FACTORS"
    [] method = "getTeamStats" -> "TEAM_STATS"
    [] method = "getPointDist" -> "POINT_DIST"
    [] method = "getValidTeams" -> "VALID_TEAMS"
    [] method = "getSchedule" -> "SCHEDULE"
    [] method = "getScoutingReport" -> "SCHEDULE"
    [] method = "getPlayerStats" -> "PLAYER_STATS"
    [] method = "getHeight" -> "HEIGHT"
    [] method = "getArenas" -> "ARENAS"
    [] method = "getGameAttribs" -> "GAME_ATTRIBS"
    [] method = "getKpoy" -> "KPOY"
    [] method = "getRefs" -> "REFS"

\* a data method with a season (e.g. lines 371-377): `if (season)
\* validateSeason(...)`, then the fetch, with y when the season is truthy
seasonMethod(method, y) ==
  IF SeasonGiven(y) /\ validateSeason(y, seasonKeyOf(method))
  THEN Err([msg |-> "before minimum year", min |-> MIN_SEASONS[seasonKeyOf(method)]])
  ELSE Ok([fetch |-> method, y |-> IF SeasonGiven(y) THEN y ELSE Null])

\* getFanMatch (lines 732-745): the date goes into the URL as it is
getFanMatch(date) == Ok([fetch |-> "getFanMatch", d |-> date])

SeasonMethods ==
  {"getPomeroyRatings", "getEfficiency", "getFourFactors", "getTeamStats", "getPointDist",
   "getValidTeams", "getSchedule", "getScoutingReport", "getPlayerStats", "getHeight",
   "getArenas", "getGameAttribs", "getKpoy", "getRefs"}

FirstYear == 1997
LastYear == 2017

RequestedSeasons == {Null, Some(0)} \cup {Some(y) : y \in FirstYear..LastYear}

\* dates as year and month
RequestedDates == {[year |-> y, month |-> mo] : y \in 2012..2015, mo \in {1, 3, 11, 12}}

InitValidate ==
  /\ pc = "start"
  /\ NoSession
  /\ \/ endpoint \in SeasonMethods /\ season \in RequestedSeasons /\ option = <<>>
     \/ endpoint = "getFanMatch" /\ season = <<>> /\ option \in RequestedDates
  /\ html = <<>> /\ data = <<>>
  /\ schema = <<>> /\ locator = 0 /\ cellText = <<>>
  /\ toks = <<>> /\ pad = "null" /\ gameStr = Null /\ result = emptyResult
  /\ cells = <<>> /\ rowData = <<>> /\ games = <<>>

CallSeasonMethod ==
  /\ pc = "start" /\ endpoint \in SeasonMethods
  /\ data' = seasonMethod(endpoint, season)
  /\ pc' = "done"
  /\ UNCHANGED <<endpoint, html, season, gameVars, fanVars, argVars, runVars>>

CallFanMatch ==
  /\ pc = "start" /\ endpoint = "getFanMatch"
  /\ data' = getFanMatch(option)
  /\ pc' = "done"
  /\ UNCHANGED <<endpoint, html, season, gameVars, fanVars, argVars, runVars>>

NextValidate == CallSeasonMethod \/ CallFanMatch

SpecValidate == InitValidate /\ [][NextValidate]_vars

\* the documented minimum season of a data method
DocumentedMinimum(method) ==
  CASE method = "getPlayerStats" -> 2004
    [] method = "getHeight" -> 2007
    [] method \in {"getArenas", "getGameAttribs"} -> 2010
    [] method = "getKpoy" -> 2011
    [] method = "getFanMatch" -> 2014
    [] method = "getRefs" -> 2016
    [] OTHER -> 1999

\* the season a date belongs to: the season starts in November
SeasonOfDate(d) == IF d.month >= 11 THEN d.year + 1 ELSE d.year

\* the season requested, Null when none
RequestedSeason ==
  IF endpoint = "getFanMatch" THEN Some(SeasonOfDate(option)) ELSE season

Rejected == ~data.ok /\ data.error.msg = "before minimum year"

\* C23: every data method with a documented minimum season rejects a request
\* for an earlier season (getFanMatch: a date in an earlier season) with a
\* 'before minimum year' error and without a fetch; a null season is never
\* rejected
C23_SeasonValidation ==
  pc = "done" =>
    /\ (RequestedSeason # Null /\ RequestedSeason[1] < DocumentedMinimum(endpoint)) => Rejected
    /\ RequestedSeason = Null => ~Rejected

\* the methods that validate the season reject every season from 1 up to the
\* year before the minimum, and no season from the minimum on
SeasonValidationOfPositiveSeasons ==
  (pc = "done" /\ endpoint \in SeasonMethods /\ season # Null /\ season[1] > 0) =>
    (Rejected <=> season[1] < DocumentedMinimum(endpoint))

----------------------------------------------------------------------------
(* The CLI (src/cli.js main): the fetches of a run, the pauses between them *)
(* and the end of the process.  Pauses are in seconds.                      *)

MaxOptions == 2
MaxTeams == 2
MaxDates == 2
MaxMetrics == 2

\* randomPause(2000, 7000) of the CLI, randomPause(2000, 5000) of
\* getAllPlayerStats (api.ts line 648)
PauseMin == 2
PauseMax == 7
MetricPauseMax == 5

EndpointFlags ==
  {"arenas", "programRatings", "trends", "hca", "ratings", "efficiency", "fourFactors",
   "teamStats", "pointDist", "height", "playerStats", "kpoy", "refs", "gameAttribs",
   "validTeams", "schedule", "fanmatch", "fanmatchDate"}

Flags == EndpointFlags \cup {"allMetrics", "team", "dryRun"}

YearRanges == {<<2003>>, <<2016>>, <<2015, 2016>>}

\* a fetch whose error reaches the catch of main, followed by a pause
Plain(name) ==
  <<[name |-> name, pauses |-> <<<<PauseMin, PauseMax>>>>, onFailure |-> "throw"]>>

\* lines 349-362: the error is caught and the pause follows the try
Guarded(name) ==
  <<[name |-> name, pauses |-> <<<<PauseMin, PauseMax>>>>, onFailure |-> "pause"]>>

\* lines 487-496 and 508-521: fetch and pause inside the try, the error caught
Skippable(name, n) ==
  [i \in 1..n |-> [name |-> name, pauses |-> <<<<PauseMin, PauseMax>>>>, onFailure |-> "skip"]]

\* getAllPlayerStats (api.ts lines 638-652) and the pause of the CLI after it
AllMetrics(n) ==
  [i \in 1..n |->
     [name |-> "playerStats",
      pauses |-> IF i < n THEN <<<<PauseMin, MetricPauseMax>>>>
                 ELSE <<<<PauseMin, MetricPauseMax>>, <<PauseMin, PauseMax>>>>,
      onFailure |-> "throw"]]

When(cond, steps) == IF cond THEN steps ELSE <<>>

\* lines 317-362: the endpoints fetched once
singleSteps(o) ==
  When("arenas" \in o, Plain("arenas")) \o When("programRatings" \in o, Plain("programRatings"))
    \o When("trends" \in o, Plain("trends")) \o When("hca" \in o, Plain("hca"))
    \o When("fanmatchDate" \in o, Guarded("fanmatchDate"))

\* lines 367-524: the endpoints fetched for one year
yearSteps(o, year) ==
  When("ratings" \in o, Plain("ratings")) \o When("efficiency" \in o, Plain("efficiency"))
    \o When("fourFactors" \in o, Plain("fourFactors")) \o When("teamStats" \in o, Plain("teamStats"))
    \o When("pointDist" \in o, Plain("pointDist"))
    \o When("height" \in o /\ year >= 2007, Plain("height"))
    \o When("playerStats" \in o /\ year >= 2004,
            IF "allMetrics" \in o THEN AllMetrics(MaxMetrics) ELSE Plain("playerStats"))
    \o When("kpoy" \in o /\ year >= 2011, Plain("kpoy"))
    \o When("refs" \in o /\ year >= 2016, Plain("refs"))
    \o When("gameAttribs" \in o /\ year >= 2010, Plain("gameAttribs"))
    \o When("validTeams" \in o, Plain("validTeams"))
    \o When("schedule" \in o,
            IF "team" \in o THEN Plain("schedule")
            ELSE Plain("validTeams") \o Skippable("schedule", MaxTeams))
    \o When("fanmatch" \in o /\ year >= 2014, Skippable("fanmatch", MaxDates))

RECURSIVE yearlySteps(_, _)
yearlySteps(o, years) ==
  IF years = <<>> THEN <<>> ELSE yearSteps(o, Head(years)) \o yearlySteps(o, Tail(years))

\* the fetches of a run, in the order of main
planOf(o, years) == singleSteps(o) \o yearlySteps(o, years)

InitCli ==
  /\ pc = "start"
  /\ opts \in {o \in SUBSET Flags : Cardinality(o) <= MaxOptions}
  /\ yearRange \in YearRanges
  /\ plan = <<>> /\ cliPc = "start" /\ pauses = <<>> /\ paused = -1 /\ gap = -1 /\ api = "none"
  /\ clientTier = "auto" /\ client = 0 /\ clientType = "null" /\ isLoggedIn = FALSE
  /\ closePuppeteer = 0 /\ browsers = <<>> /\ verified = {}
  /\ loginPc = "idle" /\ tiers = <<>> /\ session = 0 /\ attempts = <<>> /\ closePc = "idle"
  /\ lastReturn = "none" /\ lastCall = [kind |-> "none", verified |-> FALSE]
  /\ calls = [login |-> 0, close |-> 0, clients |-> 0]
  /\ toks = <<>> /\ pad = "null" /\ gameStr = Null /\ result = emptyResult
  /\ cells = <<>> /\ rowData = <<>> /\ games = <<>>
  /\ endpoint = "none" /\ html = <<>> /\ season = <<>> /\ data = <<>>
  /\ schema = <<>> /\ locator = 0 /\ cellText = <<>> /\ option = <<>>

restVars == <<parserVars, fieldVars, callVars>>

\* lines 236-307: without an endpoint the process exits, a dry run returns,
\* otherwise the KenpomAPI instance is created
CliStart ==
  /\ cliPc = "start"
  /\ IF opts \cap EndpointFlags = {}
     THEN cliPc' = "exited" /\ UNCHANGED <<plan, api>>
     ELSE IF "dryRun" \in opts
     THEN cliPc' = "ended" /\ UNCHANGED <<plan, api>>
     ELSE cliPc' = "login" /\ plan' = planOf(opts, yearRange) /\ api' = "created"
  /\ UNCHANGED <<opts, yearRange, pauses, paused, gap, restVars>>

\* line 310: await api.login()
CliLogin ==
  /\ cliPc = "login"
  /\ cliPc' \in {"run", "catch"}
  /\ UNCHANGED <<opts, yearRange, plan, pauses, paused, gap, api, restVars>>

\* a get* call that issues its request, and what follows its success or its
\* error
CliFetch ==
  /\ cliPc = "run" /\ plan # <<>>
  /\ gap' = paused
  /\ paused' = 0
  /\ \/ /\ pauses' = plan[1].pauses
        /\ plan' = Tail(plan)
        /\ cliPc' = "pause"
     \/ /\ plan[1].onFailure = "throw"
        /\ cliPc' = "catch"
        /\ UNCHANGED <<plan, pauses>>
     \/ /\ plan[1].onFailure = "pause"
        /\ pauses' = plan[1].pauses
        /\ plan' = Tail(plan)
        /\ cliPc' = "pause"
     \/ /\ plan[1].onFailure = "skip"
        /\ plan' = Tail(plan)
        /\ UNCHANGED <<cliPc, pauses>>
  /\ UNCHANGED <<opts, yearRange, api, restVars>>

\* randomDelay (part_004 lines 308-310): a delay between min and max
randomDelay(min, max) == min..max

\* await randomPause(min, max)
CliPause ==
  /\ cliPc = "pause"
  /\ \E d \in randomDelay(pauses[1][1], pauses[1][2]) : paused' = paused + d
  /\ pauses' = Tail(pauses)
  /\ cliPc' = IF Len(pauses) > 1 THEN "pause" ELSE "run"
  /\ UNCHANGED <<opts, yearRange, plan, gap, api, restVars>>

\* lines 527-529: the end of the try block
CliDone ==
  /\ cliPc = "run" /\ plan = <<>>
  /\ cliPc' = "finally"
  /\ UNCHANGED <<opts, yearRange, plan, pauses, paused, gap, api, restVars>>

\* lines 531-536: the catch block ends the process with process.exit(1)
CliCatch ==
  /\ cliPc = "catch"
  /\ cliPc' = "exited"
  /\ UNCHANGED <<opts, yearRange, plan, pauses, paused, gap, api, restVars>>

\* lines 537-539: the finally block
CliFinally ==
  /\ cliPc = "finally"
  /\ api' = "closed"
  /\ cliPc' = "ended"
  /\ UNCHANGED <<opts, yearRange, plan, pauses, paused, gap, restVars>>

NextCli == CliStart \/ CliLogin \/ CliFetch \/ CliPause \/ CliDone \/ CliCatch \/ CliFinally

SpecCli == InitCli /\ [][NextCli]_vars

\* C24: between any two consecutive fetches of a run a random pause of at
\* least 2 and at most 7 seconds takes place, on every path, the paths on
\* which the earlier fetch failed and was skipped and the fetches inside
\* getAllPlayerStats included
C24_PauseBetweenFetches ==
  gap = -1 \/ (gap >= 2 /\ gap <= 7)

\* C29: on every path of main on which the KenpomAPI instance has been
\* created, api.close() is called before the process ends
C29_CliCloses ==
  (cliPc \in {"ended", "exited"} /\ api # "none") => api = "closed"

----------------------------------------------------------------------------
(* The sections of a schedule (src/src/parsers.ts parseSchedule): body rows *)
(* that name a tournament, and the games after them                        *)

MaxScheduleRows == 4

T_NcaaTournament == <<"N", "C", "A", "A", " ", "T", "o", "u", "r", "n", "a", "m", "e", "n", "t">>

T_NitPostseason == <<"N", "I", "T", " ", "P", "o", "s", "t", "s", "e", "a", "s", "o", "n">>

\* a game row: date, ranks, opponent, result
ScheduleGameRow(date) == Td(<<date, <<"1">>, <<"2">>, <<"O", "p", "p">>, <<"W">>>>)

D_Nov1 == <<"N", "o", "v", " ", "1">>

D_Mar9 == <<"M", "a", "r", " ", "9">>

ScheduleRows ==
  {ScheduleGameRow(D_Nov1), ScheduleGameRow(D_Mar9),
   Td(<<T_ConfTournament>>), Td(<<T_NcaaTournament>>), Th(<<T_NitPostseason>>),
   DateHeaderRow}

ScheduleBodies == UNION {[1..n -> ScheduleRows] : n \in 0..MaxScheduleRows}

ScheduleTables ==
  {[hasTbody |-> TRUE, head |-> <<HeaderRow>>, tbody |-> b] : b \in ScheduleBodies}

InitSchedule ==
  /\ pc = "start"
  /\ NoSession
  /\ endpoint = "schedule"
  /\ html \in {<<PlainTable, t>> : t \in ScheduleTables}
  /\ season \in {Null, Some(2009)}
  /\ data = <<>>
  /\ schema = <<>> /\ locator = 0 /\ cellText = <<>> /\ option = <<>>
  /\ toks = <<>> /\ pad = "null" /\ gameStr = Null /\ result = emptyResult
  /\ cells = <<>> /\ rowData = <<>> /\ games = <<>>

ParseScheduleDocument ==
  /\ pc = "start" /\ endpoint = "schedule"
  /\ data' = parseSchedule(html, season)
  /\ pc' = "done"
  /\ UNCHANGED <<endpoint, html, season, gameVars, fanVars, argVars, runVars>>

NextSchedule == ParseScheduleDocument

SpecSchedule == InitSchedule /\ [][NextSchedule]_vars

\* the row's text contains 'Tournament' or 'Postseason'
IsSectionHeader(row) ==
  Includes(rowText(row), W_Tournament) \/ Includes(rowText(row), W_Postseason)

\* the row is returned as a game: it has <td> cells, and is neither a section
\* header nor a repeated column header
IsGameRow(row, y) ==
  /\ ~IsSectionHeader(row)
  /\ ~row.th /\ Len(row.cells) > 0
  /\ Trim(row.cells[1]) # T_Date
  /\ LET r == IF SeasonGiven(y) /\ y[1] < 2010 THEN 4 ELSE 5
     IN Len(row.cells) >= r => Trim(row.cells[1]) # Trim(row.cells[r])

\* the label of the nearest section header before row i, '' when there is none
LabelInForce(rows, i) ==
  LET hs == {j \in 1..(i - 1) : IsSectionHeader(rows[j])}
  IN IF hs = {} THEN <<>>
     ELSE tournamentLabel(rowText(rows[CHOOSE j \in hs : \A k \in hs : k <= j]))

\* the index of the k-th game row
GameRowAt(rows, y, k) ==
  CHOOSE i \in 1..Len(rows) :
    /\ IsGameRow(rows[i], y)
    /\ Cardinality({j \in 1..i : IsGameRow(rows[j], y)}) = k

\* C25: parseSchedule returns the body rows that are games, in document
\* order, and no section header (a row whose text contains 'Tournament' or
\* 'Postseason'); each game's Tournament field is the label of the nearest
\* section header before it, '' when none precedes it, so that a label
\* stays in force until the next section header replaces it
C25_TournamentTracking ==
  (pc = "done" /\ endpoint = "schedule" /\ Len(html) = 2) =>
    LET rows == bodyRows(html[2])
        n    == Cardinality({i \in 1..Len(rows) : IsGameRow(rows[i], season)})
    IN /\ data.ok
       /\ Len(data.value) = n
       /\ \A k \in 1..n :
            /\ data.value[k]["Date"] = Trim(rows[GameRowAt(rows, season, k)].cells[1])
            /\ data.value[k]["Tournament"] = LabelInForce(rows, GameRowAt(rows, season, k))

\* a conference tournament section, a game, an NCAA tournament section, a game
C25_Witness ==
  /\ pc = "done" /\ endpoint = "schedule" /\ Len(html) = 2
  /\ bodyRows(html[2]) = <<Td(<<T_ConfTournament>>), ScheduleGameRow(D_Mar9),
                           Td(<<T_NcaaTournament>>), ScheduleGameRow(D_Nov1)>>
  /\ data.ok /\ Len(data.value) = 2
  /\ data.value[1]["Tournament"] = W_Conference \o <<" ">> \o W_Tournament
  /\ data.value[2]["Tournament"] = W_Tournament

----------------------------------------------------------------------------
(* The decorations of a FanMatch Game cell, in any order *)

\* the tournament tags among the decorations of the Game cell
TagsOf(decor) == {decor[i] : i \in 1..Len(decor)} \cap {W_B12T, W_NCAA}

\* each decoration occurs at most once, and at most one of them is a tag
DecoratedOnce(decor) ==
  /\ \A i, j \in 1..Len(decor) : decor[i] = decor[j] => i = j
  /\ Cardinality(TagsOf(decor)) <= 1

\* C26: for a completed game followed by any subset of the decorations
\* '[n]', a tournament tag and '(OT)', in any order, parseFanMatch returns
\* the Winner, WinnerRank, WinnerScore, Loser, LoserRank, LoserScore and
\* ActualMOV of the bare game string, with Possessions = n, Tournament = the
\* tag and OT = the marker for each decoration that is present
C26_DecorationOrder ==
  (/\ pc = "done" /\ games # <<>> /\ ~cells.mvp
   /\ cells.base = CompletedToks(W_1, <<W_D>>, W_10, W_12, <<W_D, W_St>>, W_7)
   /\ DecoratedOnce(cells.decor)) =>
    LET g     == games[1]
        bare  == parseGameResult(Some(Join(cells.base, SPACE)))
        words == {cells.decor[i] : i \in 1..Len(cells.decor)}
    IN /\ g.Winner = bare.Winner /\ g.WinnerRank = bare.WinnerRank
       /\ g.WinnerScore = bare.WinnerScore
       /\ g.Loser = bare.Loser /\ g.LoserRank = bare.LoserRank
       /\ g.LoserScore = bare.LoserScore
       /\ g.ActualMOV = bare.ActualMOV
       /\ W_P68 \in words => g.Possessions = Some(W_68)
       /\ \A t \in TagsOf(cells.decor) : g.Tournament = Some(t)
       /\ W_OT \in words => g.OT = Some(<<"O", "T">>)

\* the same for the one order possessions, overtime marker, tournament tag
DecorationsInPageOrder ==
  (/\ pc = "done" /\ games # <<>> /\ ~cells.mvp
   /\ cells.base = CompletedToks(W_1, <<W_D>>, W_10, W_12, <<W_D, W_St>>, W_7)
   /\ cells.decor \in {<<>>, <<W_P68>>, <<W_OT>>, <<W_B12T>>, <<W_P68, W_OT>>,
                        <<W_P68, W_B12T>>, <<W_OT, W_NCAA>>, <<W_P68, W_OT, W_B12T>>}) =>
    LET g     == games[1]
        bare  == parseGameResult(Some(Join(cells.base, SPACE)))
        words == {cells.decor[i] : i \in 1..Len(cells.decor)}
    IN /\ g.Winner = bare.Winner /\ g.WinnerRank = bare.WinnerRank
       /\ g.WinnerScore = bare.WinnerScore
       /\ g.Loser = bare.Loser /\ g.LoserRank = bare.LoserRank
       /\ g.LoserScore = bare.LoserScore
       /\ g.ActualMOV = bare.ActualMOV
       /\ W_P68 \in words => g.Possessions = Some(W_68)
       /\ \A t \in TagsOf(cells.decor) : g.Tournament = Some(t)
       /\ W_OT \in words => g.OT = Some(<<"O", "T">>)

----------------------------------------------------------------------------
(* Distinctness of the header-derived column names *)

\* the number of <td> cells of the body rows, which all have as many
BodyWidth == Len(tdCells(bodyRows(html[locator + 1])[1]))

\* C27: the names derived from a header row by parseTableElement and by the
\* conference parsers are pairwise distinct, whatever texts repeat, so that a
\* body row of c cells, c at most the number of headers, gives a record of
\* exactly c keys
C27_DistinctHeaderNames ==
  Derived =>
    /\ \A i, j \in 1..Len(schema) : schema[i] = schema[j] => i = j
    /\ data.ok
    /\ BodyWidth <= Len(schema) =>
         \A k \in 1..Len(data.value) : Cardinality(DOMAIN data.value[k]) = BodyWidth

\* no name is assigned twice when no header text occurs three times and none
\* is the suffixed form of another
DistinctNamesOfPlainHeaders ==
  (/\ Derived
   /\ \A i \in 0..(Len(HeaderCells) - 1) :
        /\ Cardinality({j \in 0..(Len(HeaderCells) - 1) : TextAt(j) = TextAt(i)}) <= 2
        /\ TextAt(i) \notin {<<"W", "_", "2">>, <<"C", "o", "l", "u", "m", "n", "1">>}) =>
    \A i, j \in 1..Len(schema) : schema[i] = schema[j] => i = j

----------------------------------------------------------------------------
(* The URL of a team page (src/unnamed/part_003 encodeTeamName, buildUrl;   *)
(* src/src/api.ts getSchedule, getScoutingReport)                          *)

MaxTeamName == 3

BASE_URL == <<"h", "t", "t", "p", "s", ":", "/", "/", "k", "e", "n", "p", "o", "m", ".", "c", "o", "m">>

ENDPOINT_TEAM == <<"/", "t", "e", "a", "m", ".", "p", "h", "p">>

K_team == <<"t", "e", "a", "m">>

K_y == <<"y">>

\* String.prototype.replace(/c/g, by) for a one-character pattern
RECURSIVE ReplaceChar(_, _, _)
ReplaceChar(t, c, by) ==
  IF t = <<>> THEN <<>>
  ELSE (IF Head(t) = c THEN by ELSE <<Head(t)>>) \o ReplaceChar(Tail(t), c, by)

\* encodeTeamName (lines 234-236)
encodeTeamName(team) == ReplaceChar(ReplaceChar(team, " ", <<"+">>), "&", <<"%", "2", "6">>)

\* the characters a form-urlencoded value keeps as they are
UrlencodedPlain ==
  Digits \cup {"*", "-", ".", "_"}
    \cup {"A", "B", "C", "D", "E", "F", "G", "H", "I", "J", "K", "L", "M",
          "N", "O", "P", "Q", "R", "S", "T", "U", "V", "W", "X", "Y", "Z",
          "a", "b", "c", "d", "e", "f", "g", "h", "i", "j", "k", "l", "m",
          "n", "o", "p", "q", "r", "s", "t", "u", "v", "w", "x", "y", "z"}

\* URLSearchParams serialisation of one character (line 250, line 254): a
\* space becomes '+', every other character outside the plain set its
\* percent-encoded byte
urlencodedChar(c) ==
  CASE c \in UrlencodedPlain -> <<c>>
    [] c = " " -> <<"+">>
    [] c = "%" -> <<"%", "2", "5">>
    [] c = "&" -> <<"%", "2", "6">>
    [] c = "'" -> <<"%", "2", "7">>
    [] c = "+" -> <<"%", "2", "B">>
    [] c = "=" -> <<"%", "3", "D">>

RECURSIVE urlencoded(_)
urlencoded(t) == IF t = <<>> THEN <<>> ELSE urlencodedChar(Head(t)) \o urlencoded(Tail(t))

\* the query string of the appended parameters, in order
RECURSIVE searchOf(_)
searchOf(params) ==
  IF params = <<>> THEN <<>>
  ELSE urlencoded(params[1][1]) \o <<"=">> \o urlencoded(params[1][2])
         \o (IF Len(params) > 1 THEN <<"&">> ELSE <<>>) \o searchOf(Tail(params))

\* buildUrl (lines 245-255): params are the entries of the object, in order
buildUrl(path, params) ==
  BASE_URL \o path \o (IF params = <<>> THEN <<>> ELSE <<"?">> \o searchOf(params))

\* getSchedule (api.ts 701-717) and getScoutingReport (api.ts 764-777) up to
\* the URL they fetch
teamUrl(method, team, y) ==
  IF team = <<>> THEN Err([msg |-> "Team name is required"])
  ELSE IF SeasonGiven(y) /\ validateSeason(y, seasonKeyOf(method))
  THEN Err([msg |-> "before minimum year", min |-> MIN_SEASONS[seasonKeyOf(method)]])
  ELSE Ok(buildUrl(ENDPOINT_TEAM,
                   <<<<K_team, encodeTeamName(team)>>>>
                     \o (IF SeasonGiven(y) THEN <<<<K_y, NumberToString(y[1])>>>> ELSE <<>>)))

TeamNameChars == {"A", "M", " ", "&", "+", "%"}

TeamNames == UNION {[1..n -> TeamNameChars] : n \in 0..MaxTeamName}

InitUrl ==
  /\ pc = "start"
  /\ NoSession
  /\ endpoint \in {"getSchedule", "getScoutingReport"}
  /\ cellText \in TeamNames
  /\ season \in {Null, Some(1998), Some(2016)}
  /\ html = <<>> /\ data = <<>>
  /\ schema = <<>> /\ locator = 0 /\ option = <<>>
  /\ toks = <<>> /\ pad = "null" /\ gameStr = Null /\ result = emptyResult
  /\ cells = <<>> /\ rowData = <<>> /\ games = <<>>

BuildTeamUrl ==
  /\ pc = "start" /\ endpoint \in {"getSchedule", "getScoutingReport"}
  /\ data' = teamUrl(endpoint, cellText, season)
  /\ pc' = "done"
  /\ UNCHANGED <<endpoint, html, season, gameVars, fanVars, argVars, runVars>>

NextUrl == BuildTeamUrl

SpecUrl == InitUrl /\ [][NextUrl]_vars

\* the character of a percent-encoded byte
CharOfByte(n) ==
  CASE n = 32 -> " " [] n = 37 -> "%" [] n = 38 -> "&" [] n = 39 -> "'"
    [] n = 43 -> "+" [] n = 61 -> "=" [] OTHER -> "?"

\* percent-decoding: every '%' followed by two hex digits is one byte
RECURSIVE percentDecoded(_)
percentDecoded(t) ==
  IF t = <<>> THEN <<>>
  ELSE IF t[1] = "%" /\ Len(t) >= 3 /\ t[2] \in HexDigits /\ t[3] \in HexDigits
  THEN <<CharOfByte(16 * HexVal(t[2]) + HexVal(t[3]))>> \o percentDecoded(Drop(t, 3))
  ELSE <<Head(t)>> \o percentDecoded(Tail(t))

\* one round of query-string decoding: '+' to space, then percent-decoding
queryDecoded(t) == percentDecoded(ReplaceChar(t, "+", <<" ">>))

\* the raw value of the first parameter key of the URL's query
rawParameter(url, key) ==
  LET q     == IndexOf(url, <<"?">>)
      pairs == IF q = 0 THEN <<>> ELSE Split(Drop(url, q), <<"&">>)
      hits  == {i \in 1..Len(pairs) : StartsWith(pairs[i], key \o <<"=">>)}
  IN IF hits = {} THEN Null
     ELSE Some(Drop(pairs[CHOOSE i \in hits : \A j \in hits : i <= j], Len(key) + 1))

\* C30: the 'team' parameter of the URL getSchedule and getScoutingReport
\* fetch for the team name t decodes, under one round of query-string
\* decoding, to exactly t, spaces and '&' in t included
C30_TeamNameSurvives ==
  (pc = "done" /\ endpoint \in {"getSchedule", "getScoutingReport"} /\ data.ok) =>
    /\ rawParameter(data.value, K_team) # Null
    /\ queryDecoded(rawParameter(data.value, K_team)[1]) = cellText

\* what the parameter decodes to is the result of encodeTeamName, which is
\* the team name when that has neither a space nor '&'
TeamParameterIsEncodedName ==
  (pc = "done" /\ endpoint \in {"getSchedule", "getScoutingReport"} /\ data.ok) =>
    /\ rawParameter(data.value, K_team) # Null
    /\ queryDecoded(rawParameter(data.value, K_team)[1]) = encodeTeamName(cellText)
    /\ (\A i \in 1..Len(cellText) : cellText[i] \notin {" ", "&"}) =>
         encodeTeamName(cellText) = cellText

====
